---------------------------- MODULE Spec2Model ----------------------------
(***************************************************************************)
(* PrimeProp: the multi-provider ingestion pipeline of src/src/ingest.py.  *)
(*                                                                         *)
(* Strings are sequences of one-character strings, so that the string      *)
(* operations of the code (lower-casing, stripping, concatenating an id    *)
(* suffix, comparing) are computed and not assumed.  Scores are the        *)
(* 0..100 scores of thefuzz in units of 1/1000 (80 is 80000).              *)
(***************************************************************************)
EXTENDS Integers, Sequences, FiniteSets, TLC

VARIABLES
    players,      \* the roster handed to FuzzyNameMatcher / the orchestrator
    matcher,      \* the FuzzyNameMatcher instance: its three attributes
    lastCall,     \* history: the latest match_player_id call, [name, ret]
    mints,        \* history: one [name, id] per identity minted, oldest first
    payload,      \* the decoded JSON document handed to a normalizer
    parsed,       \* what the normalizer gave back: [done, raised, lines, calls]
    ingestor,     \* the ProviderIngestor subclass whose normalizer is called
    responses,    \* per provider, what its HTTP request will give
    opc,          \* where fetch_multi_source_snapshot is: gather, returned, ...
    task,         \* per provider, the state of its fetch_lines task
    work,         \* per provider, _parse_payload's events left and lines so far
    running,      \* the provider whose task holds the event loop, or 0
    results,      \* per provider, the result of its task
    completed,    \* history: the providers in the order their tasks ended
    cancelRequested, \* the orchestrator's task was cancelled
    snapshot,     \* the MarketSnapshot returned to the caller
    accessLog,    \* history: the provider behind each match_player_id call
    get_projection, \* the projection provider handed to rank_props_by_edge
    ranked,       \* what rank_props_by_edge returned: [done, raised, edges, ...]
    previous,     \* history: what the call before the latest returned
    alert,        \* what alert_high_value_props did: its inputs and its return
    odds,         \* the argument of calculate_implied_probability
    implied,      \* what calculate_implied_probability returned
    history,      \* the arguments of projection.get_projection
    projection    \* what projection.get_projection returned or raised

parseVars == <<payload, parsed, ingestor>>

orchVars == <<responses, opc, task, work, running, results, completed,
              cancelRequested, snapshot, accessLog>>

rankVars == <<get_projection, ranked, previous, alert>>

calcVars == <<odds, implied, history, projection>>

vars == <<players, matcher, lastCall, mints, payload, parsed, ingestor,
          responses, opc, task, work, running, results, completed,
          cancelRequested, snapshot, accessLog, get_projection, ranked,
          previous, alert, odds, implied, history, projection>>

-----------------------------------------------------------------------------
(* Python values *)

\* Python's None: a value that is no string (every string is a sequence of
\* one-character strings).
None == <<"None">>

\* Python truthiness of an optional string: None and "" are falsy.
Truthy(s) == s # None /\ s # <<>>

Max(a, b) == IF a >= b THEN a ELSE b

Uppercase == <<"A","B","C","D","E","F","G","H","I","J","K","L","M",
               "N","O","P","Q","R","S","T","U","V","W","X","Y","Z">>
Lowercase == <<"a","b","c","d","e","f","g","h","i","j","k","l","m",
               "n","o","p","q","r","s","t","u","v","w","x","y","z">>
Digits == <<"0","1","2","3","4","5","6","7","8","9">>

Range(s) == {s[i] : i \in DOMAIN s}

IsAlnum(c) == c \in Range(Uppercase) \cup Range(Lowercase) \cup Range(Digits)

ToLower(c) ==
    IF c \in Range(Uppercase)
    THEN Lowercase[CHOOSE i \in DOMAIN Uppercase : Uppercase[i] = c]
    ELSE c

\* str(n) for n >= 0.
RECURSIVE Str(_)
Str(n) == IF n < 10 THEN <<Digits[n + 1]>>
          ELSE Str(n \div 10) \o <<Digits[(n % 10) + 1]>>

\* f"{base} ({suffix})"
SuffixedId(base, suffix) == base \o <<" ", "(">> \o Str(suffix) \o <<")">>

-----------------------------------------------------------------------------
(* Python dict: insertion-ordered, a sequence of [key, value] entries *)

DictKeys(d) == [i \in DOMAIN d |-> d[i].key]

DictHas(d, k) == \E i \in DOMAIN d : d[i].key = k

\* d.get(k)
DictGet(d, k) ==
    IF DictHas(d, k) THEN d[CHOOSE i \in DOMAIN d : d[i].key = k].value
    ELSE None

\* d[k] = v: an existing key keeps its position, a new key goes last.
DictSet(d, k, v) ==
    IF DictHas(d, k)
    THEN [i \in DOMAIN d |-> IF d[i].key = k THEN [key |-> k, value |-> v] ELSE d[i]]
    ELSE Append(d, [key |-> k, value |-> v])

-----------------------------------------------------------------------------
(* The strings of the inputs *)

\* Player names, a team code.
Ace   == <<"A", "c", "e">>
ACE   == <<"A", "C", "E">>
Bob   == <<"B", "o", "b">>
James == <<"J", "a", "m", "e", "s">>
Jamez == <<"J", "a", "m", "e", "z">>
Bangs == <<"!", "!">>
LAL   == <<"L", "A", "L">>

\* Literals of the outcomes: points 5.5, 6 and 0, a point and a price that
\* are no numbers, the prices -110 and +150, and the sides as spelled.
P_5_5  == <<"5", ".", "5">>
P_6    == <<"6">>
P_0    == <<"0">>
P_abc  == <<"a", "b", "c">>
M_110  == <<"-", "1", "1", "0">>
P_150  == <<"1", "5", "0">>
Over   == <<"O", "v", "e", "r">>
Under  == <<"U", "n", "d", "e", "r">>
UnderLower == <<"u", "n", "d", "e", "r">>

-----------------------------------------------------------------------------
(* thefuzz: process.extractOne with its default processor and scorer *)

\* Strip leading and trailing blanks.
RECURSIVE Strip(_)
Strip(s) ==
    IF s = <<>> THEN s
    ELSE IF Head(s) = " " THEN Strip(Tail(s))
    ELSE IF s[Len(s)] = " " THEN Strip(SubSeq(s, 1, Len(s) - 1))
    ELSE s

\* utils.full_process: every non-alphanumeric character becomes a blank,
\* the rest is lower-cased, and the result is stripped.
full_process(s) ==
    Strip([i \in DOMAIN s |-> IF IsAlnum(s[i]) THEN ToLower(s[i]) ELSE " "])

\* Length of the longest common subsequence.
RECURSIVE LCS(_, _)
LCS(a, b) ==
    IF a = <<>> \/ b = <<>> THEN 0
    ELSE IF Head(a) = Head(b) THEN 1 + LCS(Tail(a), Tail(b))
    ELSE Max(LCS(Tail(a), b), LCS(a, Tail(b)))

\* fuzz.ratio: the normalized Indel similarity, 100 * 2*LCS / (|a| + |b|).
ratio(a, b) ==
    IF Len(a) + Len(b) = 0 THEN 100000
    ELSE (200000 * LCS(a, b)) \div (Len(a) + Len(b))

\* The substrings of the longer string that partial_ratio aligns the shorter
\* one (of length m) with: every window of length m, and the shorter
\* prefixes and suffixes.
Windows(long, m) ==
    {SubSeq(long, i, i + m - 1) : i \in 1..(Len(long) - m + 1)}
      \cup {SubSeq(long, 1, k) : k \in 1..(m - 1)}
      \cup {SubSeq(long, Len(long) - k + 1, Len(long)) : k \in 1..(m - 1)}

SetMax(S) == CHOOSE x \in S : \A y \in S : y <= x

\* fuzz.partial_ratio: the best ratio of the shorter string against a
\* substring of the longer one.
partial_ratio(a, b) ==
    LET short == IF Len(a) <= Len(b) THEN a ELSE b
        long  == IF Len(a) <= Len(b) THEN b ELSE a
    IN  IF short = <<>> THEN (IF long = <<>> THEN 100000 ELSE 0)
        ELSE SetMax({ratio(short, w) : w \in Windows(long, Len(short))})

\* fuzz.WRatio on processed strings of one token each (no inner blank): the
\* token_sort and token_set ratios of two one-token strings equal their
\* ratio (resp. partial_ratio), so the weighted maximum is
\*   ratio                              when the lengths are within 1.5x,
\*   max(ratio, scale * partial_ratio)  otherwise, scale 0.9 (0.6 from 8x).
WRatio(p1, p2) ==
    IF p1 = <<>> \/ p2 = <<>> THEN 0
    ELSE LET l1 == Len(p1)
             l2 == Len(p2)
             hi == Max(l1, l2)
             lo == IF l1 <= l2 THEN l1 ELSE l2
         IN  IF 2 * hi < 3 * lo THEN ratio(p1, p2)
             ELSE IF hi < 8 * lo
                  THEN Max(ratio(p1, p2), (9 * partial_ratio(p1, p2)) \div 10)
                  ELSE Max(ratio(p1, p2), (6 * partial_ratio(p1, p2)) \div 10)

\* The score process.extractOne gives a choice: both sides pre-processed.
Score(query, choice) == WRatio(full_process(query), full_process(choice))

\* The mutant of the cutoff test: the boundary excluded.
ReachesCutoffStrict(score, score_cutoff) == score > score_cutoff * 1000

\* score >= score_cutoff
ReachesCutoff(score, score_cutoff) == score >= score_cutoff * 1000

\* The scan of extractOne: a choice replaces the best so far only when it
\* reaches the cutoff and scores strictly higher (the first best wins).
RECURSIVE ExtractScan(_, _, _, _, _)
ExtractScan(query, choices, score_cutoff, i, best) ==
    IF i > Len(choices) THEN best
    ELSE LET s == Score(query, choices[i])
         IN  IF ReachesCutoff(s, score_cutoff) /\ (best = None \/ s > best[2])
             THEN ExtractScan(query, choices, score_cutoff, i + 1,
                              <<choices[i], s>>)
             ELSE ExtractScan(query, choices, score_cutoff, i + 1, best)

\* process.extractOne(query, choices, score_cutoff=...): the best choice
\* as the pair <<choice, score>>, or None.
extractOne(query, choices, score_cutoff) ==
    ExtractScan(query, choices, score_cutoff, 1, None)

-----------------------------------------------------------------------------
(* models.Player and FuzzyNameMatcher *)

Player(id, standardized_name, team, aliases) ==
    [id |-> id, standardized_name |-> standardized_name,
     team |-> team, aliases |-> aliases]

\* The team of a dynamically created player.
UNK == <<"U", "N", "K">>

DefaultScoreCutoff == 80

RECURSIVE AddAliases(_, _, _)
AddAliases(d, aliases, id) ==
    IF aliases = <<>> THEN d
    ELSE AddAliases(DictSet(d, Head(aliases), id), Tail(aliases), id)

RECURSIVE AddPlayers(_, _)
AddPlayers(m, ps) ==
    IF ps = <<>> THEN m
    ELSE LET p == Head(ps)
         IN  AddPlayers(
               [m EXCEPT
                  !._players_by_id = DictSet(@, p.id, p),
                  !._name_to_player_id =
                      AddAliases(DictSet(@, p.standardized_name, p.id),
                                 p.aliases, p.id)],
               Tail(ps))

\* FuzzyNameMatcher.__init__
FuzzyNameMatcher(ps, score_cutoff) ==
    LET m == AddPlayers([_score_cutoff |-> score_cutoff,
                         _name_to_player_id |-> <<>>,
                         _players_by_id |-> <<>>,
                         _choices |-> <<>>], ps)
    IN  [m EXCEPT !._choices = DictKeys(m._name_to_player_id)]

\* The while loop of _create_player_from_name: the first unused suffix.
RECURSIVE FreeSuffix(_, _, _)
FreeSuffix(m, base, suffix) ==
    IF DictHas(m._players_by_id, SuffixedId(base, suffix))
    THEN FreeSuffix(m, base, suffix + 1)
    ELSE suffix

\* The mutant of NewPlayerId: the raw name is the id, collision or not.
NewPlayerIdUnchecked(m, name) == name

\* The id _create_player_from_name gives a new player.
NewPlayerId(m, name) ==
    IF DictHas(m._players_by_id, name)
    THEN SuffixedId(name, FreeSuffix(m, name, 2))
    ELSE name

\* _create_player_from_name: [player, m], the new player and the matcher
\* after it.
_create_player_from_name(m, name) ==
    LET player == Player(NewPlayerId(m, name), name, UNK, <<>>)
        n2id   == DictSet(m._name_to_player_id, name, player.id)
    IN  [player |-> player,
         m |-> [m EXCEPT !._players_by_id = DictSet(@, player.id, player),
                         !._name_to_player_id = n2id,
                         !._choices = DictKeys(n2id)]]

\* The mutant of MatchedId: looks the raw name up, not the matched choice.
MatchedIdByRawName(m, name, match) == DictGet(m._name_to_player_id, name)

\* The return of a successful match: the id of the matched choice.
MatchedId(m, name, match) == DictGet(m._name_to_player_id, match[1])

\* match_player_id: [ret, m], the returned id (or None) and the matcher
\* after the call.
match_player_id(m, name) ==
    IF ~Truthy(name) THEN [ret |-> None, m |-> m]
    ELSE IF m._choices = <<>>
    THEN LET c == _create_player_from_name(m, name)
         IN  [ret |-> c.player.id, m |-> c.m]
    ELSE LET match == extractOne(name, m._choices, m._score_cutoff)
         IN  IF match = None
             THEN LET c == _create_player_from_name(m, name)
                  IN  [ret |-> c.player.id, m |-> c.m]
             ELSE [ret |-> MatchedId(m, name, match), m |-> m]

-----------------------------------------------------------------------------
(* JSON scalars and models.PropLine *)

\* A string whose letters the code never looks into (a market key, a stat
\* type, a bookmaker title): one opaque element.
Atom(s) == <<s>>

\* Python's `a or b` on optional strings.
Or(a, b) == IF Truthy(a) THEN a ELSE b

\* A number, as the value of an Optional[float] field (None when absent).
\* Numbers are counted in tenths: 5.5 is 55.
Num(v) == <<"num", v>>

IsDigit(c) == c \in Range(Digits)

DigitValue(c) == (CHOOSE i \in DOMAIN Digits : Digits[i] = c) - 1

AllDigits(s) == s # <<>> /\ \A i \in DOMAIN s : IsDigit(s[i])

RECURSIVE NatValue(_)
NatValue(s) ==
    IF s = <<>> THEN 0
    ELSE 10 * NatValue(SubSeq(s, 1, Len(s) - 1)) + DigitValue(s[Len(s)])

\* float(x) of a JSON scalar given by its literal text: [ok, v] with v in
\* tenths, ok FALSE where float raises TypeError or ValueError.  Literals
\* are an optional sign, digits, and at most one decimal.
float(x) ==
    IF x = None \/ x = <<>> THEN [ok |-> FALSE, v |-> 0]
    ELSE LET neg  == Head(x) = "-"
             body == IF neg THEN Tail(x) ELSE x
             dots == {i \in DOMAIN body : body[i] = "."}
             sign == IF neg THEN -1 ELSE 1
         IN  IF dots = {}
             THEN IF AllDigits(body)
                  THEN [ok |-> TRUE, v |-> sign * 10 * NatValue(body)]
                  ELSE [ok |-> FALSE, v |-> 0]
             ELSE LET k    == CHOOSE i \in dots : TRUE
                      int  == SubSeq(body, 1, k - 1)
                      frac == SubSeq(body, k + 1, Len(body))
                  IN  IF Cardinality(dots) = 1 /\ AllDigits(int)
                         /\ Len(frac) = 1 /\ IsDigit(frac[1])
                      THEN [ok |-> TRUE,
                            v |-> sign * (10 * NatValue(int) + DigitValue(frac[1]))]
                      ELSE [ok |-> FALSE, v |-> 0]

\* str.lower()
lower(s) == [i \in DOMAIN s |-> ToLower(s[i])]

\* The Literal of PropLine.stat_type.
StatTypes == {Atom("Points"), Atom("Rebounds"), Atom("Assists"),
              Atom("PRA"), Atom("Threes")}

\* Validation of an Optional[float] field: None stays None, a number is
\* kept, anything else is rejected.
OptionalFloat(x) ==
    IF x = None THEN [ok |-> TRUE, v |-> None]
    ELSE IF float(x).ok THEN [ok |-> TRUE, v |-> Num(float(x).v)]
    ELSE [ok |-> FALSE, v |-> None]

\* The mutant of ThresholdValid: zero accepted.
ThresholdValidFromZero(threshold) == threshold >= 0

\* Field(..., gt=0) and validate_threshold.
ThresholdValid(threshold) == threshold > 0

\* PropLine(...): [ok, line]; ok FALSE where the constructor raises
\* ValueError.
PropLine(player_id, provider, stat_type, threshold, over_odds, under_odds) ==
    LET over  == OptionalFloat(over_odds)
        under == OptionalFloat(under_odds)
    IN  [ok |-> /\ stat_type \in StatTypes
                /\ ThresholdValid(threshold)
                /\ over.ok /\ under.ok,
         line |-> [player_id |-> player_id, provider |-> provider,
                   stat_type |-> stat_type, threshold |-> threshold,
                   over_odds |-> over.v, under_odds |-> under.v]]

-----------------------------------------------------------------------------
(* OddsApiIngestor._parse_payload *)

STAT_TYPE_KEY_MAP ==
    << [key |-> Atom("player_points"), value |-> Atom("Points")],
       [key |-> Atom("player_rebounds"), value |-> Atom("Rebounds")],
       [key |-> Atom("player_assists"), value |-> Atom("Assists")],
       [key |-> Atom("player_points_rebounds_assists"), value |-> Atom("PRA")],
       [key |-> Atom("player_threes"), value |-> Atom("Threes")] >>

OddsApiProviderName == Atom("The Odds API")

\* A JSON outcome object; an absent key is None.
Outcome(description, player, point, price, name) ==
    [description |-> description, player |-> player, point |-> point,
     price |-> price, name |-> name]

Market(key, outcomes) == [key |-> key, outcomes |-> outcomes]

Bookmaker(title, markets) == [title |-> title, markets |-> markets]

\* An event object; isdict FALSE is a list element that is no JSON object,
\* on which event.get raises AttributeError.
Event(bookmakers) == [isdict |-> TRUE, bookmakers |-> bookmakers]
NotAnObject == [isdict |-> FALSE, bookmakers |-> <<>>]

\* The running state of one normalization: the matcher, the lines emitted,
\* the names given to match_player_id, and whether an exception escaped.
ParseState(m) == [m |-> m, lines |-> <<>>, calls |-> <<>>, raised |-> FALSE]

\* No normalizer has returned yet.
NotParsed == [done |-> FALSE, raised |-> FALSE, lines |-> <<>>, calls |-> <<>>]

\* The mutant of GroupKey: one group per outcome side.
GroupKeyPerSide(player_name, threshold, outcome_name) ==
    <<player_name, threshold, outcome_name>>

\* name_key = (player_name, threshold)
GroupKey(player_name, threshold, outcome_name) == <<player_name, threshold>>

\* The loop over the outcomes of one market: the grouped dict.
RECURSIVE GroupOutcomes(_, _)
GroupOutcomes(outcomes, grouped) ==
    IF outcomes = <<>> THEN grouped
    ELSE LET outcome     == Head(outcomes)
             player_name == Or(outcome.description, outcome.player)
             threshold   == float(outcome.point)
             outcome_name == lower(Or(outcome.name, <<>>))
             name_key    == GroupKey(player_name, threshold.v, outcome_name)
             info == IF DictHas(grouped, name_key)
                     THEN DictGet(grouped, name_key)
                     ELSE [over_odds |-> None, under_odds |-> None]
             info2 == IF outcome_name = <<"o", "v", "e", "r">>
                      THEN [info EXCEPT !.over_odds = outcome.price]
                      ELSE IF outcome_name = <<"u", "n", "d", "e", "r">>
                      THEN [info EXCEPT !.under_odds = outcome.price]
                      ELSE info
         IN  IF ~Truthy(player_name) \/ outcome.point = None \/ ~threshold.ok
             THEN GroupOutcomes(Tail(outcomes), grouped)
             ELSE GroupOutcomes(Tail(outcomes), DictSet(grouped, name_key, info2))

\* The loop over grouped.items(): one resolver call and at most one line per
\* group.
RECURSIVE EmitGroups(_, _, _, _)
EmitGroups(grouped, st, provider_label, stat_type) ==
    IF grouped = <<>> THEN st
    ELSE LET player_name == Head(grouped).key[1]
             threshold   == Head(grouped).key[2]
             odds_info   == Head(grouped).value
             r    == match_player_id(st.m, player_name)
             made == PropLine(r.ret, provider_label, stat_type, threshold,
                              odds_info.over_odds, odds_info.under_odds)
             st2  == [st EXCEPT !.m = r.m,
                                !.calls = Append(@, player_name),
                                !.lines = IF r.ret # None /\ made.ok
                                          THEN Append(@, made.line) ELSE @]
         IN  EmitGroups(Tail(grouped), st2, provider_label, stat_type)

\* The body of the loop over markets.
ParseMarket(market, st, provider_label) ==
    LET stat_type == DictGet(STAT_TYPE_KEY_MAP, market.key)
    IN  IF stat_type = None THEN st
        ELSE EmitGroups(GroupOutcomes(market.outcomes, <<>>), st,
                        provider_label, stat_type)

RECURSIVE ParseMarkets(_, _, _)
ParseMarkets(markets, st, provider_label) ==
    IF markets = <<>> THEN st
    ELSE ParseMarkets(Tail(markets), ParseMarket(Head(markets), st, provider_label),
                      provider_label)

RECURSIVE ParseBookmakers(_, _)
ParseBookmakers(bookmakers, st) ==
    IF bookmakers = <<>> THEN st
    ELSE LET bookmaker == Head(bookmakers)
             provider_label == Or(bookmaker.title, OddsApiProviderName)
         IN  ParseBookmakers(Tail(bookmakers),
                             ParseMarkets(bookmaker.markets, st, provider_label))

\* The body of the loop over events; an event that is no object raises.
OddsParseEvent(event, st) ==
    IF ~event.isdict THEN [st EXCEPT !.raised = TRUE]
    ELSE ParseBookmakers(event.bookmakers, st)

\* A decoded Odds API document: a list of events, an object (with or
\* without a "bookmakers" key and a "data" key), or a scalar.
ListPayload(events) ==
    [kind |-> "list", items |-> events,
     has_bookmakers |-> FALSE, bookmakers |-> <<>>,
     has_data |-> FALSE, data |-> <<>>]
SingleEventPayload(bookmakers) ==
    [kind |-> "dict", items |-> <<>>,
     has_bookmakers |-> TRUE, bookmakers |-> bookmakers,
     has_data |-> FALSE, data |-> <<>>]
WrapperPayload(data) ==
    [kind |-> "dict", items |-> <<>>,
     has_bookmakers |-> FALSE, bookmakers |-> <<>>,
     has_data |-> TRUE, data |-> data]
ScalarPayload ==
    [kind |-> "other", items |-> <<>>,
     has_bookmakers |-> FALSE, bookmakers |-> <<>>,
     has_data |-> FALSE, data |-> <<>>]

\* The mutant of OddsEvents: only a top-level list is walked.
OddsEventsListOnly(p) == IF p.kind = "list" THEN p.items ELSE <<>>

\* The events the normalizer walks, by the shape of the payload.
OddsEvents(p) ==
    IF p.kind = "list" THEN p.items
    ELSE IF p.kind = "dict" /\ p.has_bookmakers THEN <<Event(p.bookmakers)>>
    ELSE IF p.kind = "dict" THEN (IF p.has_data THEN p.data ELSE <<>>)
    ELSE <<>>

RECURSIVE OddsParseEvents(_, _)
OddsParseEvents(events, st) ==
    IF events = <<>> \/ st.raised THEN st
    ELSE OddsParseEvents(Tail(events), OddsParseEvent(Head(events), st))

\* OddsApiIngestor._parse_payload
OddsApi_parse_payload(p, m) == OddsParseEvents(OddsEvents(p), ParseState(m))

-----------------------------------------------------------------------------
(* PrizePicksIngestor._parse_payload *)

\* The keys of STAT_TYPE_NAME_MAP are compared after str.lower(): they are
\* spelled out letter by letter.
K_points == <<"p","o","i","n","t","s">>
K_rebounds == <<"r","e","b","o","u","n","d","s">>
K_assists == <<"a","s","s","i","s","t","s">>
K_points_rebounds_assists == K_points \o <<"_">> \o K_rebounds \o <<"_">> \o K_assists
K_pra == <<"p","r","a">>
K_threes == <<"t","h","r","e","e","s">>
K_three_pointers_made ==
    <<"t","h","r","e","e","_","p","o","i","n","t","e","r","s","_","m","a","d","e">>

STAT_TYPE_NAME_MAP ==
    << [key |-> K_points, value |-> Atom("Points")],
       [key |-> K_rebounds, value |-> Atom("Rebounds")],
       [key |-> K_assists, value |-> Atom("Assists")],
       [key |-> K_points_rebounds_assists, value |-> Atom("PRA")],
       [key |-> K_pra, value |-> Atom("PRA")],
       [key |-> K_threes, value |-> Atom("Threes")],
       [key |-> K_three_pointers_made, value |-> Atom("Threes")] >>

PrizePicksProviderName == Atom("PrizePicks")

\* A JSON item object by the keys of its "attributes" object; an absent key
\* (or an absent "attributes") is None.
Item(display_name, name, stat_type, stat, line_score) ==
    [isdict |-> TRUE, display_name |-> display_name, name |-> name,
     stat_type |-> stat_type, stat |-> stat, line_score |-> line_score]

\* A list element that is no JSON object: item.get raises AttributeError.
NotAnItem ==
    [isdict |-> FALSE, display_name |-> None, name |-> None,
     stat_type |-> None, stat |-> None, line_score |-> None]

\* The body of the loop over items: one item skipped, or resolved and
\* emitted; an item that is no object raises.
PrizeParseItem(item, st) ==
    IF ~item.isdict THEN [st EXCEPT !.raised = TRUE]
    ELSE LET player_name == Or(item.display_name, item.name)
             stat_raw    == Or(item.stat_type, item.stat)
             stat_key    == lower(stat_raw)
             stat_type   == DictGet(STAT_TYPE_NAME_MAP, stat_key)
             threshold   == float(item.line_score)
             r    == match_player_id(st.m, player_name)
             made == PropLine(r.ret, PrizePicksProviderName, stat_type,
                              threshold.v, None, None)
         IN  IF ~Truthy(player_name) THEN st
             ELSE IF ~Truthy(stat_raw) THEN st
             ELSE IF stat_type = None THEN st
             ELSE IF item.line_score = None THEN st
             ELSE IF ~threshold.ok THEN st
             ELSE [st EXCEPT !.m = r.m,
                             !.calls = Append(@, player_name),
                             !.lines = IF r.ret # None /\ made.ok
                                       THEN Append(@, made.line) ELSE @]

\* items = payload.get("data", []) if isinstance(payload, dict) else payload;
\* ok FALSE where the payload is a scalar, over which the loop cannot run.
PrizeItems(p) ==
    IF p.kind = "dict"
    THEN [ok |-> TRUE, items |-> IF p.has_data THEN p.data ELSE <<>>]
    ELSE IF p.kind = "list" THEN [ok |-> TRUE, items |-> p.items]
    ELSE [ok |-> FALSE, items |-> <<>>]

RECURSIVE PrizeParseItems(_, _)
PrizeParseItems(items, st) ==
    IF items = <<>> \/ st.raised THEN st
    ELSE PrizeParseItems(Tail(items), PrizeParseItem(Head(items), st))

\* PrizePicksIngestor._parse_payload
PrizePicks_parse_payload(p, m) ==
    IF PrizeItems(p).ok THEN PrizeParseItems(PrizeItems(p).items, ParseState(m))
    ELSE [ParseState(m) EXCEPT !.raised = TRUE]

-----------------------------------------------------------------------------
(* optimizer.py: compute_edge and rank_props_by_edge *)

\* Numbers are counted in tenths (as thresholds are); an edge, the quotient
\* of two of them, is a fraction in lowest terms with a positive denominator.
Abs(n) == IF n < 0 THEN -n ELSE n

RECURSIVE GCD(_, _)
GCD(a, b) == IF b = 0 THEN a ELSE GCD(b, a % b)

\* n / d for d # 0.
Frac(n, d) ==
    LET g == GCD(Abs(n), Abs(d))
        sign == IF d < 0 THEN -1 ELSE 1
    IN  [num |-> sign * (n \div g), den |-> Abs(d) \div g]

\* a > b, a < b on fractions.
FracGT(a, b) == a.num * b.den > b.num * a.den
FracLT(a, b) == FracGT(b, a)

\* abs(e)
FracAbs(a) == [num |-> Abs(a.num), den |-> a.den]

\* The literal 0.05 and its negation.
FivePercent == Frac(1, 20)
MinusFivePercent == Frac(-1, 20)

\* The mutant of MarketLineRejected: only a negative line is rejected.
MarketLineRejectedBelowZero(market_line) == market_line < 0

\* if market_line <= 0.0: raise ValueError
MarketLineRejected(market_line) == market_line <= 0

\* compute_edge: [kind, v]; kind is "value" where it returns v, "ValueError"
\* where it raises that, and "ZeroDivisionError" where the division does.
compute_edge(projected, market_line) ==
    IF MarketLineRejected(market_line)
    THEN [kind |-> "ValueError", v |-> Frac(0, 1)]
    ELSE IF market_line = 0
    THEN [kind |-> "ZeroDivisionError", v |-> Frac(0, 1)]
    ELSE [kind |-> "value", v |-> Frac(projected - market_line, market_line)]

\* The mutant of RecommendedSide: the boundaries included.
RecommendedSideInclusive(edge_value) ==
    IF ~FracLT(edge_value, FivePercent) THEN "Over"
    ELSE IF ~FracGT(edge_value, MinusFivePercent) THEN "Under"
    ELSE "Pass"

\* The if/elif/else on edge_value.
RecommendedSide(edge_value) ==
    IF FracGT(edge_value, FivePercent) THEN "Over"
    ELSE IF FracLT(edge_value, MinusFivePercent) THEN "Under"
    ELSE "Pass"

\* PropEdge(...)
PropEdge(player_id, stat_type, provider, market_line, projected, edge, side) ==
    [player_id |-> player_id, stat_type |-> stat_type, provider |-> provider,
     market_line |-> market_line, projected |-> projected, edge |-> edge,
     recommended_side |-> side]

\* The running state of one call: the list ranked and, as history, every
\* call of compute_edge with what it gave.
RankState == [ranked |-> <<>>, edge_calls |-> <<>>, raised |-> FALSE]

\* The mutant of SkipsLine: a line without a projection is ranked at a
\* projection of zero.
SkipsLineOnlyOnError(projected, edge) == edge.kind = "ValueError"

\* The two continue statements of the loop: no projection, or compute_edge
\* raised ValueError.
SkipsLine(projected, edge) == projected = None \/ edge.kind = "ValueError"

\* The loop over snapshot.lines; get_projection is a function of the pair
\* (player_id, stat_type) that gives None or a number.
RECURSIVE RankLoop(_, _, _)
RankLoop(lines, proj, st) ==
    IF lines = <<>> \/ st.raised THEN st
    ELSE LET line      == Head(lines)
             projected == proj[<<line.player_id, line.stat_type>>]
             value     == IF projected = None THEN 0 ELSE projected[2]
             edge      == compute_edge(value, line.threshold)
             call      == [projected |-> value, market_line |-> line.threshold,
                           kind |-> edge.kind, v |-> edge.v]
             st2 == [st EXCEPT !.edge_calls =
                                  IF projected = None THEN @ ELSE Append(@, call)]
         IN  IF SkipsLine(projected, edge)
             THEN RankLoop(Tail(lines), proj, st2)
             ELSE IF edge.kind = "ZeroDivisionError"
             THEN [st2 EXCEPT !.raised = TRUE]
             ELSE RankLoop(Tail(lines), proj,
                    [st2 EXCEPT !.ranked = Append(@,
                        PropEdge(line.player_id, line.stat_type, line.provider,
                                 line.threshold, value, edge.v,
                                 RecommendedSide(edge.v)))])

\* The mutant of GoesBefore: an entry also overtakes its equals.
GoesBeforeOrEqual(x, y) == ~FracLT(x.edge, y.edge)

\* In a list sorted by key item.edge with reverse=True, x goes before y of
\* the sorted part only when its edge is greater: equals keep their order.
GoesBefore(x, y) == FracGT(x.edge, y.edge)

\* x put into a sorted list: after every entry it does not go before.
RECURSIVE SortedInsert(_, _)
SortedInsert(x, sorted) ==
    IF sorted = <<>> THEN <<x>>
    ELSE IF GoesBefore(x, Head(sorted)) THEN <<x>> \o sorted
    ELSE <<Head(sorted)>> \o SortedInsert(x, Tail(sorted))

\* ranked.sort(key=lambda item: item.edge, reverse=True): the stable sort,
\* as the insertion of each entry in turn.
RECURSIVE SortByEdge(_, _)
SortByEdge(list, sorted) ==
    IF list = <<>> THEN sorted
    ELSE SortByEdge(Tail(list), SortedInsert(Head(list), sorted))

\* The mutant of LinesAfterRank: the lines of the snapshot reversed in place.
LinesAfterRankReversed(lines) == [i \in DOMAIN lines |-> lines[Len(lines) + 1 - i]]

\* snapshot.lines after the call: the loop only reads it, and the list that
\* is sorted is the function's own.
LinesAfterRank(lines) == lines

\* rank_props_by_edge: [raised, ranked, edge_calls, lines], whether an error
\* escaped, the list returned, the calls of compute_edge, and snapshot.lines
\* after the call.
rank_props_by_edge(snap, proj) ==
    LET st == RankLoop(snap.lines, proj, RankState)
    IN  [raised |-> st.raised,
         ranked |-> IF st.raised THEN <<>> ELSE SortByEdge(st.ranked, <<>>),
         edge_calls |-> st.edge_calls,
         lines |-> LinesAfterRank(snap.lines)]

-----------------------------------------------------------------------------
(* alerting.py: alert_high_value_props and the two senders *)

\* min_edge: float = 0.05
DefaultMinEdge == FivePercent

\* What urlopen does with a request: it returns a response of status 200, or
\* raises URLError (HTTPError included) or another OSError, or raises an
\* exception of neither class (http.client.BadStatusLine on a reply that is
\* no HTTP).
DeliveryOutcomes == {"200", "URLError", "OSError", "BadStatusLine"}

\* except (urllib.error.URLError, OSError)
SenderCatches(outcome) == outcome \in {"URLError", "OSError"}

\* send_telegram / send_discord: [raised, ret]; the exception escapes where
\* the except clause does not name it.
send(outcome) ==
    IF outcome = "200" THEN [raised |-> FALSE, ret |-> TRUE]
    ELSE IF SenderCatches(outcome) THEN [raised |-> FALSE, ret |-> FALSE]
    ELSE [raised |-> TRUE, ret |-> FALSE]

\* The mutant of HighValue: an edge of min_edge itself selected too.
HighValueInclusive(ranked_edges, min_edge) ==
    SelectSeq(ranked_edges, LAMBDA e : ~FracLT(FracAbs(e.edge), min_edge))

\* [e for e in ranked_edges if abs(e.edge) > min_edge]
HighValue(ranked_edges, min_edge) ==
    SelectSeq(ranked_edges, LAMBDA e : FracGT(FracAbs(e.edge), min_edge))

\* The loop over high_value: per entry a Telegram message where a token and
\* a chat id are set, then a Discord message where a webhook is set; st is
\* [raised, sent], sent the deliveries attempted.
RECURSIVE AlertLoop(_, _, _, _, _)
AlertLoop(high_value, telegram, discord, network, st) ==
    IF high_value = <<>> \/ st.raised THEN st
    ELSE LET prop_edge == Head(high_value)
             t   == send(network["telegram"])
             st1 == IF telegram
                    THEN [raised |-> t.raised,
                          sent |-> Append(st.sent, [channel |-> "telegram",
                                                    player_id |-> prop_edge.player_id,
                                                    ret |-> t.ret])]
                    ELSE st
             d   == send(network["discord"])
             st2 == IF discord /\ ~st1.raised
                    THEN [raised |-> d.raised,
                          sent |-> Append(st1.sent, [channel |-> "discord",
                                                     player_id |-> prop_edge.player_id,
                                                     ret |-> d.ret])]
                    ELSE st1
         IN  AlertLoop(Tail(high_value), telegram, discord, network, st2)

\* alert_high_value_props: [raised, high_value, sent, ranked_edges], whether
\* an exception escaped, the list returned, the deliveries attempted, and
\* the list it was given as it is after the call.
alert_high_value_props(ranked_edges, min_edge, telegram, discord, network) ==
    LET high_value == HighValue(ranked_edges, min_edge)
        st == AlertLoop(high_value, telegram, discord, network,
                        [raised |-> FALSE, sent |-> <<>>])
    IN  [raised |-> st.raised,
         high_value |-> IF st.raised THEN <<>> ELSE high_value,
         sent |-> st.sent,
         ranked_edges |-> ranked_edges]

-----------------------------------------------------------------------------
(* optimizer.calculate_implied_probability and projection.py *)

\* a + b and v * a on fractions, v an integer.
FracAdd(a, b) == Frac(a.num * b.den + b.num * a.den, a.den * b.den)
FracTimes(v, a) == Frac(v * a.num, a.den)

\* A float that is None or a number of tenths.
NoFloat == [kind |-> "None", v |-> 0]
Float(v) == [kind |-> "float", v |-> v]

\* What a function that returns Optional[float] gives: None or a fraction.
ReturnsNone == [kind |-> "None", v |-> Frac(0, 1)]
Returns(v) == [kind |-> "value", v |-> v]
Raises(exception) == [kind |-> exception, v |-> Frac(0, 1)]

\* The mutant of calculate_implied_probability: the formula of positive
\* odds applied to every odds that are not zero.
calculate_implied_probability_unsigned(o) ==
    IF o.kind = "None" THEN ReturnsNone
    ELSE IF o.v # 0 THEN Returns(Frac(100 * 10, o.v + 100 * 10))
    ELSE Returns(Frac(Abs(o.v), Abs(o.v) + 100 * 10))

\* calculate_implied_probability: 100.0 is 1000 tenths.
calculate_implied_probability(o) ==
    IF o.kind = "None" THEN ReturnsNone
    ELSE IF o.v > 0 THEN Returns(Frac(100 * 10, o.v + 100 * 10))
    ELSE Returns(Frac(Abs(o.v), Abs(o.v) + 100 * 10))

STAT_TYPES == {"Points", "Rebounds", "Assists", "PRA", "Threes"}

\* _linear_weights: float(i) / total for i in range(1, n + 1)
_linear_weights(n) ==
    IF n <= 0 THEN <<>>
    ELSE LET total == (n * (n + 1)) \div 2
         IN  [i \in 1..n |-> Frac(i, total)]

\* sum(...) over the first k terms of a sequence of fractions.
RECURSIVE FracSum(_, _)
FracSum(terms, k) ==
    IF k = 0 THEN Frac(0, 1) ELSE FracAdd(FracSum(terms, k - 1), terms[k])

\* sum(values) of integers.
RECURSIVE Sum(_)
Sum(values) == IF values = <<>> THEN 0 ELSE Head(values) + Sum(Tail(values))

Min(a, b) == IF a <= b THEN a ELSE b

\* compute_weighted_average: zip stops at the shorter of the two lists.
compute_weighted_average(values) ==
    IF values = <<>> THEN Frac(0, 1)
    ELSE LET weights == _linear_weights(Len(values))
             zipped == [i \in 1..Min(Len(values), Len(weights)) |->
                          FracTimes(values[i], weights[i])]
         IN  FracSum(zipped, Len(zipped))

\* compute_simple_average
compute_simple_average(values) ==
    IF values = <<>> THEN Frac(0, 1) ELSE Frac(Sum(values), Len(values))

\* values[start:] of Python: a negative start counts from the end, and a
\* start beyond either end is clamped.
SliceFrom(values, start) ==
    LET from == IF start < 0 THEN Max(Len(values) + start, 0)
                ELSE Min(start, Len(values))
    IN  SubSeq(values, from + 1, Len(values))

\* recent = historical_values[-n_games:] if len(historical_values) > n_games
\*          else historical_values
Recent(historical_values, n_games) ==
    IF Len(historical_values) > n_games
    THEN SliceFrom(historical_values, -n_games)
    ELSE historical_values

\* projection.get_projection (the variable get_projection is the provider
\* handed to the optimizer, so the function carries its module's name).
projection_get_projection(player_id, stat_type, historical_values, n_games, method) ==
    IF stat_type \notin STAT_TYPES THEN Raises("ValueError")
    ELSE LET recent == Recent(historical_values, n_games)
         IN  IF recent = <<>> THEN Returns(Frac(0, 1))
             ELSE IF method = "weighted_average"
             THEN Returns(compute_weighted_average(recent))
             ELSE IF method = "simple_average"
             THEN Returns(compute_simple_average(recent))
             ELSE Raises("ValueError")

\* Neither function has been called.
NotCalled == [done |-> FALSE, kind |-> "None", v |-> Frac(0, 1)]
Called(ret) == [done |-> TRUE, kind |-> ret.kind, v |-> ret.v]

NoHistory ==
    [player_id |-> "", stat_type |-> "Points", historical_values |-> <<>>,
     n_games |-> 10, method |-> "weighted_average"]

\* The variables of the two functions where neither is called.
CalcIdle ==
    /\ odds = NoFloat
    /\ implied = NotCalled
    /\ history = NoHistory
    /\ projection = NotCalled

-----------------------------------------------------------------------------
(* The optimizer and the alerting at rest *)

\* rank_props_by_edge has not been called.
NotRanked ==
    [done |-> FALSE, raised |-> FALSE, edges |-> <<>>, edge_calls |-> <<>>]

\* alert_high_value_props has not been called.
NotAlerted ==
    [done |-> FALSE, raised |-> FALSE, high_value |-> <<>>,
     min_edge |-> DefaultMinEdge, telegram |-> FALSE, discord |-> FALSE,
     network |-> <<>>, sent |-> <<>>, ranked_after |-> <<>>]

\* The optimizer's and the alerting's variables where neither runs.
RankIdle ==
    /\ get_projection = <<>>
    /\ ranked = NotRanked
    /\ previous = NotRanked
    /\ alert = NotAlerted

-----------------------------------------------------------------------------
(* fetch_multi_source_snapshot: the provider tasks on the asyncio loop *)

\* What the network gives a provider: an error (connection, HTTP status,
\* JSON decoding) raised by _fetch_json, or a decoded payload.
FetchError == [ok |-> FALSE, payload |-> ScalarPayload]
FetchOk(p) == [ok |-> TRUE, payload |-> p]

OneMarketEvent(outcomes) ==
    Event(<<Bookmaker(None, <<Market(Atom("player_points"), outcomes)>>)>>)

\* Payloads of two events each: both sides of (Ace, 5.5) then Bob; the same
\* player spelled ACE then James; and a line of Bob followed by an element
\* that is no object, on which the normalizer raises after resolving Bob.
PayloadAceBob ==
    ListPayload(<<OneMarketEvent(<<Outcome(Ace, None, P_5_5, M_110, Over),
                                   Outcome(Ace, None, P_5_5, P_150, Under)>>),
                  OneMarketEvent(<<Outcome(Bob, None, P_5_5, P_150, Over)>>)>>)
PayloadACEJames ==
    ListPayload(<<OneMarketEvent(<<Outcome(ACE, None, P_6, P_150, Over)>>),
                  OneMarketEvent(<<Outcome(James, None, P_6, M_110, Under)>>)>>)
PayloadBobBroken ==
    ListPayload(<<OneMarketEvent(<<Outcome(Bob, None, P_6, M_110, Under)>>),
                  NotAnObject>>)

\* The same with a line of ACE: the normalizer raises after resolving ACE.
PayloadACEBroken ==
    ListPayload(<<OneMarketEvent(<<Outcome(ACE, None, P_6, M_110, Under)>>),
                  NotAnObject>>)

Responses == {FetchError, FetchOk(PayloadAceBob), FetchOk(PayloadACEJames),
              FetchOk(PayloadBobBroken), FetchOk(PayloadACEBroken)}

\* The number of providers handed to fetch_multi_source_snapshot.
NumProviders == 2

Providers == 1..NumProviders

\* A task is over: it returned, raised, or was cancelled.
Terminal == {"done", "failed", "cancelled"}

\* The result slot of a task.
NoResult == [kind |-> "none", lines |-> <<>>]
LinesResult(lines) == [kind |-> "lines", lines |-> lines]
ExceptionResult == [kind |-> "exception", lines |-> <<>>]
CancelledResult == [kind |-> "cancelled", lines |-> <<>>]

NoSnapshot == [returned |-> FALSE, lines |-> <<>>]

\* MarketSnapshot(snapshot_id, game_id, lines)
MarketSnapshot(lines) == [returned |-> TRUE, lines |-> lines]

OrchInit ==
    /\ players \in {<<>>, <<Player(<<"A">>, James, LAL, <<Ace>>)>>}
    /\ matcher = FuzzyNameMatcher(players, DefaultScoreCutoff)
    /\ lastCall = [name |-> None, ret |-> None]
    /\ mints = <<>>
    /\ payload = ScalarPayload
    /\ parsed = NotParsed
    /\ ingestor = "OddsApiIngestor"
    /\ RankIdle
    /\ CalcIdle
    /\ responses \in [Providers -> Responses]
    /\ opc = "gather"
    /\ task = [p \in Providers |-> "pending"]
    /\ work = [p \in Providers |-> [events |-> <<>>, lines |-> <<>>]]
    /\ running = 0
    /\ results = [p \in Providers |-> NoResult]
    /\ completed = <<>>
    /\ cancelRequested = FALSE
    /\ snapshot = NoSnapshot
    /\ accessLog = <<>>

\* The mutant of Launched: the fetches awaited one after the other.
LaunchedInTurn(p) == \A q \in 1..(p - 1) : task[q] \in Terminal

\* asyncio.gather wraps every coroutine of its argument in a task at once.
Launched(p) == TRUE

\* Some launched task has not had its first step: the loop runs those
\* before it polls the network.
StartPending == \E q \in Providers : task[q] = "pending" /\ Launched(q)

\* The first step of a provider task: fetch_lines runs up to the await of
\* _fetch_json and suspends with its request in flight.
TaskStart(p) ==
    /\ opc = "gather" /\ running = 0
    /\ task[p] = "pending" /\ Launched(p)
    /\ \A q \in 1..(p - 1) : task[q] # "pending"
    /\ task' = [task EXCEPT ![p] = "fetching"]
    /\ UNCHANGED <<players, matcher, lastCall, mints, parseVars, rankVars, calcVars, responses, opc,
                   work, running, results, completed, cancelRequested,
                   snapshot, accessLog>>

\* The mutant of NextRunning: the loop is given up between two events.
NextRunningYields(p) == 0

\* _parse_payload is a plain call with no await in it: the task keeps the
\* loop until it returns or raises.
NextRunning(p) == p

\* The request of provider p completes and its task resumes after the
\* await: an error propagates out of fetch_lines; a payload enters
\* _parse_payload, which computes the events to walk.
FetchComplete(p) ==
    /\ opc = "gather" /\ running = 0 /\ ~StartPending
    /\ task[p] = "fetching"
    /\ IF responses[p].ok
       THEN /\ task' = [task EXCEPT ![p] = "parse"]
            /\ work' = [work EXCEPT ![p] =
                          [events |-> OddsEvents(responses[p].payload),
                           lines |-> <<>>]]
            /\ running' = NextRunning(p)
            /\ UNCHANGED <<results, completed>>
       ELSE /\ task' = [task EXCEPT ![p] = "failed"]
            /\ results' = [results EXCEPT ![p] = ExceptionResult]
            /\ completed' = Append(completed, p)
            /\ UNCHANGED <<work, running>>
    /\ UNCHANGED <<players, matcher, lastCall, mints, parseVars, rankVars, calcVars, responses, opc,
                   cancelRequested, snapshot, accessLog>>

\* One turn of the loop over events in _parse_payload of provider p, or its
\* return when no event is left.
ParseStep(p) ==
    /\ opc = "gather" /\ task[p] = "parse" /\ running \in {p, 0}
    /\ IF work[p].events = <<>>
       THEN /\ task' = [task EXCEPT ![p] = "done"]
            /\ results' = [results EXCEPT ![p] = LinesResult(work[p].lines)]
            /\ completed' = Append(completed, p)
            /\ running' = 0
            /\ UNCHANGED <<matcher, work, accessLog>>
       ELSE LET st == OddsParseEvent(Head(work[p].events), ParseState(matcher))
            IN  /\ matcher' = st.m
                /\ accessLog' = accessLog \o [i \in DOMAIN st.calls |-> p]
                /\ IF st.raised
                   THEN /\ task' = [task EXCEPT ![p] = "failed"]
                        /\ results' = [results EXCEPT ![p] = ExceptionResult]
                        /\ completed' = Append(completed, p)
                        /\ running' = 0
                        /\ UNCHANGED work
                   ELSE /\ work' = [work EXCEPT ![p] =
                                      [events |-> Tail(work[p].events),
                                       lines |-> work[p].lines \o st.lines]]
                        /\ running' = NextRunning(p)
                        /\ UNCHANGED <<task, results, completed>>
    /\ UNCHANGED <<players, lastCall, mints, parseVars, rankVars, calcVars, responses, opc,
                   cancelRequested, snapshot>>

\* The mutant of return_exceptions: the default of asyncio.gather.
return_exceptions_default == FALSE

\* asyncio.gather(..., return_exceptions=True)
return_exceptions == TRUE

\* The mutant of GatherResults: the results in completion order.
GatherResultsAsCompleted == [i \in DOMAIN completed |-> results[completed[i]]]

\* The list asyncio.gather returns: one result per awaitable, in the order
\* of the awaitables.
GatherResults == [i \in Providers |-> results[i]]

\* The loop over results: exceptions are skipped, line lists are appended.
RECURSIVE AllLines(_)
AllLines(rs) ==
    IF rs = <<>> THEN <<>>
    ELSE IF Head(rs).kind = "exception" THEN AllLines(Tail(rs))
    ELSE Head(rs).lines \o AllLines(Tail(rs))

\* The await of gather is over: every task is, or, without
\* return_exceptions, one has raised.
GatherReady ==
    \/ \A p \in Providers : task[p] \in Terminal
    \/ ~return_exceptions /\ \E p \in Providers : task[p] = "failed"

\* The orchestrator resumes after the await of gather and returns the
\* snapshot (or lets the exception gather raised escape).
OrchestratorReturn ==
    /\ opc = "gather" /\ running = 0 /\ ~cancelRequested
    /\ GatherReady
    /\ IF ~return_exceptions /\ \E p \in Providers : task[p] = "failed"
       THEN opc' = "raised" /\ UNCHANGED snapshot
       ELSE opc' = "returned" /\ snapshot' = MarketSnapshot(AllLines(GatherResults))
    /\ UNCHANGED <<players, matcher, lastCall, mints, parseVars, rankVars, calcVars, responses, task,
                   work, running, results, completed, cancelRequested, accessLog>>

\* The task running fetch_multi_source_snapshot is cancelled while it
\* awaits gather: gather cancels every task that is not over.
Cancel ==
    /\ opc = "gather" /\ running = 0 /\ ~cancelRequested
    /\ cancelRequested' = TRUE
    /\ task' = [p \in Providers |->
                  IF task[p] \in Terminal THEN task[p] ELSE "cancelling"]
    /\ UNCHANGED <<players, matcher, lastCall, mints, parseVars, rankVars, calcVars, responses, opc,
                   work, running, results, completed, snapshot, accessLog>>

\* CancelledError is thrown into a cancelled task at its await (or before
\* its first step): the task ends cancelled.
TaskCancelled(p) ==
    /\ opc = "gather" /\ running = 0
    /\ task[p] = "cancelling"
    /\ task' = [task EXCEPT ![p] = "cancelled"]
    /\ results' = [results EXCEPT ![p] = CancelledResult]
    /\ completed' = Append(completed, p)
    /\ UNCHANGED <<players, matcher, lastCall, mints, parseVars, rankVars, calcVars, responses, opc,
                   work, running, cancelRequested, snapshot, accessLog>>

\* The mutant of OnCancelled: the partial results assembled and returned.
OnCancelledPartial == [opc |-> "returned", snapshot |-> MarketSnapshot(AllLines(GatherResults))]

\* CancelledError raised at the await of gather is caught nowhere in
\* fetch_multi_source_snapshot: the call ends without a return value.
OnCancelled == [opc |-> "cancelled", snapshot |-> NoSnapshot]

\* The cancelled orchestrator resumes: CancelledError is raised at its
\* await of gather.
OrchestratorCancelled ==
    /\ opc = "gather" /\ running = 0 /\ cancelRequested
    /\ \A p \in Providers : task[p] \in Terminal
    /\ opc' = OnCancelled.opc
    /\ snapshot' = OnCancelled.snapshot
    /\ UNCHANGED <<players, matcher, lastCall, mints, parseVars, rankVars, calcVars, responses, task,
                   work, running, results, completed, cancelRequested, accessLog>>

Next ==
    \/ \E p \in Providers : TaskStart(p)
    \/ \E p \in Providers : FetchComplete(p)
    \/ \E p \in Providers : ParseStep(p)
    \/ OrchestratorReturn
    \/ Cancel
    \/ \E p \in Providers : TaskCancelled(p)
    \/ OrchestratorCancelled

Spec == OrchInit /\ [][Next]_vars

\* The orchestrator's variables where no orchestrator runs.
OrchIdle ==
    /\ responses = <<>>
    /\ opc = "idle"
    /\ task = <<>>
    /\ work = <<>>
    /\ running = 0
    /\ results = <<>>
    /\ completed = <<>>
    /\ cancelRequested = FALSE
    /\ snapshot = NoSnapshot
    /\ accessLog = <<>>

-----------------------------------------------------------------------------
(* The resolver on its own: any roster, any sequence of calls *)

\* The raw names a provider may send: empty, absent, a known alias, its
\* upper-case spelling, a name one letter from a known one (score 80
\* exactly), an unrelated name, and a name with no letter or digit.
RawNames == {<<>>, None, Ace, ACE, Bob, James, Jamez, Bangs}

\* The rosters: none (as main.py passes), one known player with an alias,
\* and that player under an id that is not one of its names.
Rosters == {<<>>,
            <<Player(<<"A">>, James, LAL, <<Ace>>)>>,
            <<Player(Bob, James, LAL, <<Ace>>)>>}

\* The resolver stops learning at this many identities.
MaxPlayers == 3

MatcherInit ==
    /\ players \in Rosters
    /\ matcher = FuzzyNameMatcher(players, DefaultScoreCutoff)
    /\ lastCall = [name |-> None, ret |-> None]
    /\ mints = <<>>
    /\ payload = ScalarPayload
    /\ parsed = NotParsed
    /\ ingestor = "OddsApiIngestor"
    /\ OrchIdle
    /\ RankIdle
    /\ CalcIdle

\* One call of match_player_id.
MatchPlayerId(name) ==
    /\ Len(matcher._players_by_id) < MaxPlayers
    /\ LET r == match_player_id(matcher, name)
       IN  /\ matcher' = r.m
           /\ lastCall' = [name |-> name, ret |-> r.ret]
           /\ mints' = IF Len(r.m._players_by_id) > Len(matcher._players_by_id)
                       THEN Append(mints, [name |-> name, id |-> r.ret])
                       ELSE mints
    /\ UNCHANGED <<players, parseVars, orchVars, rankVars, calcVars>>

MatcherNext == \E name \in RawNames : MatchPlayerId(name)

SpecMatcher == MatcherInit /\ [][MatcherNext]_vars

-----------------------------------------------------------------------------
(* The resolver's claims, under SpecMatcher *)

PlayerIds(m) == {m._players_by_id[i].key : i \in DOMAIN m._players_by_id}

\* The names of a player: its canonical name and its aliases.
NamesOf(p) == {p.standardized_name} \cup Range(p.aliases)

\* C5: a non-empty name that no known name matches is minted once, under an
\* id no other identity has, and every later resolve of that name returns
\* the id it was minted under and mints nothing.
C5_NovelNameMintedOnce ==
    /\ \A i, j \in DOMAIN mints :
          i # j => mints[i].name # mints[j].name /\ mints[i].id # mints[j].id
    /\ \A i \in DOMAIN mints :
          lastCall.name = mints[i].name => lastCall.ret = mints[i].id

\* C6: in every state of a resolver, the canonical name and every alias of
\* every identity resolve to that identity's id.
C6_NamesResolveToTheirIdentity ==
    \A i \in DOMAIN matcher._players_by_id :
       LET p == matcher._players_by_id[i].value
       IN  \A n \in NamesOf(p) : match_player_id(matcher, n).ret = p.id

\* The entries of players_by_id are keyed by their own id, each id once.
IdsUnique ==
    LET d == matcher._players_by_id
    IN  /\ \A i \in DOMAIN d : d[i].value.id = d[i].key
        /\ \A i, j \in DOMAIN d : i # j => d[i].key # d[j].key

\* A call keeps every existing identity as it is, adds at most one, and
\* gives the added one the raw name as id, or, when that id is taken, the
\* name with the first parenthesised suffix from 2 on that is not taken.
MintKeepsIdentities ==
    LET old  == matcher._players_by_id
        new  == matcher'._players_by_id
        name == lastCall'.name
    IN  /\ Len(new) \in {Len(old), Len(old) + 1}
        /\ \A i \in DOMAIN old : new[i] = old[i]
        /\ Len(new) = Len(old) + 1 =>
             LET id == new[Len(new)].key
             IN  /\ id \notin PlayerIds(matcher)
                 /\ IF name \in PlayerIds(matcher)
                    THEN \E k \in 2..(Len(old) + 2) :
                            /\ id = SuffixedId(name, k)
                            /\ \A j \in 2..(k - 1) :
                                  SuffixedId(name, j) \in PlayerIds(matcher)
                    ELSE id = name

\* C7: no two identities of a resolver share an id; minting under a raw
\* name that is already an id appends " (k)" with the first free k >= 2, and
\* replaces no existing identity.
C7_MintingKeepsIdsUnique == []IdsUnique /\ [][MintKeepsIdentities]_vars

\* C7 witness: an identity minted under a suffix that had to be incremented.
C7_Witness ==
    \E i \in DOMAIN mints :
       /\ mints[i].id = SuffixedId(mints[i].name, 3)
       /\ {mints[i].name, SuffixedId(mints[i].name, 2)} \subseteq PlayerIds(matcher)

\* C8: an empty or absent name returns None and changes nothing; every
\* other name returns the id of an identity the resolver holds.
C8_NoIdentityOnlyForEmptyName ==
    [][ LET name == lastCall'.name
            ret  == lastCall'.ret
        IN  IF Truthy(name)
            THEN ret # None /\ ret \in PlayerIds(matcher')
            ELSE ret = None /\ matcher' = matcher ]_vars

\* C8 witness: an empty or absent name resolved by a resolver that has
\* minted identities before.
C8_Witness ==
    /\ ~Truthy(lastCall.name)
    /\ lastCall.ret = None
    /\ mints # <<>>

\* The best score a known name gives the query.
BestScore(m, name) ==
    SetMax({Score(name, m._choices[i]) : i \in DOMAIN m._choices})

\* The call minted an identity for the name: one more player, named by the
\* raw name, of team UNK, without aliases, its id seeded by the name, and
\* the name index maps the name to it.
Minted(m, m2, name, ret) ==
    LET new == m2._players_by_id
    IN  /\ Len(new) = Len(m._players_by_id) + 1
        /\ new[Len(new)].key = ret
        /\ new[Len(new)].value.id = ret
        /\ new[Len(new)].value.standardized_name = name
        /\ new[Len(new)].value.team = UNK
        /\ new[Len(new)].value.aliases = <<>>
        /\ SubSeq(ret, 1, Len(name)) = name
        /\ DictGet(m2._name_to_player_id, name) = ret
        /\ m2._choices = DictKeys(m2._name_to_player_id)

\* C9: with known names, a call returns the id of the highest-scoring known
\* name (the first of them in the index order) when that score is at least
\* the cutoff, 80 included, and mints nothing; when no known name reaches
\* the cutoff, or none is known, it mints an identity for the raw name.
C9_BestMatchOrMint ==
    [][ LET name == lastCall'.name
            ret  == lastCall'.ret
            ch   == matcher._choices
        IN  Truthy(name) =>
              IF ch # <<>> /\ BestScore(matcher, name) >= DefaultScoreCutoff * 1000
              THEN /\ matcher' = matcher
                   /\ \E i \in DOMAIN ch :
                         /\ Score(name, ch[i]) = BestScore(matcher, name)
                         /\ \A j \in 1..(i - 1) :
                               Score(name, ch[j]) < BestScore(matcher, name)
                         /\ ret = DictGet(matcher._name_to_player_id, ch[i])
              ELSE Minted(matcher, matcher', name, ret) ]_vars

\* C9 witness: a name no index entry spells, matched at a score of exactly
\* the cutoff by a resolver that has also minted an identity.
C9_Witness ==
    /\ Truthy(lastCall.name)
    /\ lastCall.name \notin Range(matcher._choices)
    /\ BestScore(matcher, lastCall.name) = DefaultScoreCutoff * 1000
    /\ lastCall.ret \in PlayerIds(matcher)
    /\ mints # <<>>

-----------------------------------------------------------------------------
(* A normalizer on its own: one payload, one call *)

\* Outcomes that name a player, a numeric positive point and a price: both
\* sides of (Ace, 5.5), (Ace, 6) and (Bob, 5.5), the Under side also
\* lower-cased and with the name under the "player" key.
WellFormedOutcomes ==
    {Outcome(Ace, None, P_5_5, M_110, Over),
     Outcome(Ace, None, P_5_5, P_150, Under),
     Outcome(None, Ace, P_5_5, M_110, UnderLower),
     Outcome(Ace, None, P_6, P_150, Over),
     Outcome(Ace, None, P_6, M_110, Under),
     Outcome(Bob, None, P_5_5, P_150, Over),
     Outcome(Bob, None, P_5_5, M_110, Under)}

\* Outcomes with no name, no point, a point that is no number, a point of
\* zero, and a price that is no number.
MalformedOutcomes ==
    {Outcome(None, None, P_5_5, M_110, Over),
     Outcome(Ace, None, None, M_110, Over),
     Outcome(Ace, None, P_abc, M_110, Under),
     Outcome(Ace, None, P_0, M_110, Over),
     Outcome(Bob, None, P_5_5, P_abc, Under)}

Outcomes == WellFormedOutcomes \cup MalformedOutcomes

\* The most outcomes in the market of a payload.
MaxOutcomes == 2

SeqsUpTo(S, n) == UNION {[1..k -> S] : k \in 0..n}

\* One event with one bookmaker and one market: a market of a known key in
\* each payload shape, and a market of an unknown key.
OddsPayloads ==
    LET events(k) == {<<Event(<<Bookmaker(None, <<Market(k, os)>>)>>)>> :
                        os \in SeqsUpTo(Outcomes, MaxOutcomes)}
    IN  {ListPayload(e) : e \in events(Atom("player_points"))}
          \cup {SingleEventPayload(e[1].bookmakers) : e \in events(Atom("player_points"))}
          \cup {WrapperPayload(e) : e \in events(Atom("player_points"))}
          \cup {ListPayload(e) : e \in events(Atom("h2h"))}

ParseInit ==
    /\ players = <<>>
    /\ matcher = FuzzyNameMatcher(players, DefaultScoreCutoff)
    /\ lastCall = [name |-> None, ret |-> None]
    /\ mints = <<>>
    /\ payload \in OddsPayloads
    /\ parsed = NotParsed
    /\ ingestor = "OddsApiIngestor"
    /\ OrchIdle
    /\ RankIdle
    /\ CalcIdle

\* One call of OddsApiIngestor._parse_payload(payload, matcher).
OddsParse ==
    /\ ingestor = "OddsApiIngestor"
    /\ ~parsed.done
    /\ LET st == OddsApi_parse_payload(payload, matcher)
       IN  /\ matcher' = st.m
           /\ parsed' = [done |-> TRUE, raised |-> st.raised,
                         lines |-> st.lines, calls |-> st.calls]
    /\ UNCHANGED <<players, lastCall, mints, payload, ingestor, orchVars, rankVars, calcVars>>

ParseNext == OddsParse

SpecParse == ParseInit /\ [][ParseNext]_vars

-----------------------------------------------------------------------------
(* The normalizers' claims, under SpecParse *)

\* The outcomes of the one market of the payload.
TheMarket == OddsEvents(payload)[1].bookmakers[1].markets[1]

\* The outcomes of the market that are of player name n, threshold t (in
\* tenths) and the side given (lower-cased).
OutcomesOf(n, t, side) ==
    {i \in DOMAIN TheMarket.outcomes :
       LET o == TheMarket.outcomes[i]
       IN  /\ Or(o.description, o.player) = n
           /\ float(o.point).ok /\ float(o.point).v = t
           /\ lower(Or(o.name, <<>>)) = side}

LinesOf(id, t) ==
    {i \in DOMAIN parsed.lines :
       parsed.lines[i].player_id = id /\ parsed.lines[i].threshold = t}

\* C10: a market (of a known key) with one Over and one Under outcome of the
\* same player name and the same positive threshold, each with a numeric
\* price, normalizes to exactly one line for that player and threshold,
\* carrying the Over price as over_odds and the Under price as under_odds,
\* in whichever order the two come; no market gives two lines for one
\* player name and threshold.
C10_OverUnderGroupedIntoOneLine ==
    parsed.done =>
      \A n \in {Ace, Bob} : \A t \in {0, 55, 60} :
         LET overs  == OutcomesOf(n, t, lower(Over))
             unders == OutcomesOf(n, t, lower(Under))
         IN  /\ Cardinality(LinesOf(n, t)) <= 1
             /\ ( /\ DictHas(STAT_TYPE_KEY_MAP, TheMarket.key)
                  /\ t > 0
                  /\ Cardinality(overs) = 1 /\ Cardinality(unders) = 1
                  /\ \A i \in overs \cup unders :
                        float(TheMarket.outcomes[i].price).ok )
                =>
                  \E i \in overs, j \in unders, l \in LinesOf(n, t) :
                     /\ LinesOf(n, t) = {l}
                     /\ parsed.lines[l].over_odds =
                          Num(float(TheMarket.outcomes[i].price).v)
                     /\ parsed.lines[l].under_odds =
                          Num(float(TheMarket.outcomes[j].price).v)

\* C10 witness: the Under outcome comes first, the Over outcome second, at
\* different prices, and the one line carries both.
C10_Witness ==
    /\ parsed.done
    /\ Len(TheMarket.outcomes) = 2
    /\ lower(TheMarket.outcomes[1].name) = lower(Under)
    /\ lower(TheMarket.outcomes[2].name) = lower(Over)
    /\ Len(parsed.lines) = 1
    /\ parsed.lines[1].over_odds # None
    /\ parsed.lines[1].under_odds # None
    /\ parsed.lines[1].over_odds # parsed.lines[1].under_odds

-----------------------------------------------------------------------------
(* The payload shapes of the Odds API, under SpecParse *)

\* The events a payload carries, read off the document: the elements of the
\* list, the object itself, or the elements under "data".
EventsCarried(p) ==
    IF p.kind = "list" THEN p.items
    ELSE IF p.has_bookmakers THEN <<Event(p.bookmakers)>>
    ELSE p.data

\* The lines the normalizer gives a payload on the resolver as constructed.
FreshLines(p) ==
    OddsApi_parse_payload(p, FuzzyNameMatcher(players, DefaultScoreCutoff)).lines

\* C13: the event of the payload normalizes to the same lines as an element
\* of a top-level list, as a single-event object and inside a {data: [...]}
\* wrapper, and these are the lines the normalizer returned.
C13_ShapesGiveSameLines ==
    parsed.done =>
       LET es == EventsCarried(payload)
       IN  /\ Len(es) = 1
           /\ FreshLines(ListPayload(es)) = parsed.lines
           /\ FreshLines(SingleEventPayload(es[1].bookmakers)) = parsed.lines
           /\ FreshLines(WrapperPayload(es)) = parsed.lines

\* C13 witness: a payload in the wrapper shape normalized to two lines of
\* two players.
C13_Witness ==
    /\ parsed.done
    /\ payload.kind = "dict" /\ payload.has_data
    /\ Len(parsed.lines) = 2
    /\ parsed.lines[1].player_id # parsed.lines[2].player_id

-----------------------------------------------------------------------------
(* Both normalizers: one payload of either provider, one call *)

\* Stat labels as PrizePicks spells them, one of them unknown to the table.
S_Points == <<"P","o","i","n","t","s">>
S_PRA    == <<"P","R","A">>
S_steals == <<"s","t","e","a","l","s">>

\* Items that name a player, a known stat and a numeric positive line: Ace
\* twice (two stats, the name also under the "name" key and the stat under
\* the "stat" key) and Bob.
WellFormedItems ==
    {Item(Ace, None, S_Points, None, P_5_5),
     Item(None, Ace, None, S_PRA, P_6),
     Item(Bob, None, K_rebounds, None, P_5_5)}

\* Items with no attributes, no stat, an unknown stat, no line, a line that
\* is no number, a line of zero, and an element that is no object.
MalformedItems ==
    {Item(None, None, None, None, None),
     Item(Ace, None, None, None, P_5_5),
     Item(Ace, None, S_steals, None, P_5_5),
     Item(Bob, None, S_Points, None, None),
     Item(Bob, None, S_Points, None, P_abc),
     Item(Bob, None, S_Points, None, P_0),
     NotAnItem}

Items == WellFormedItems \cup MalformedItems

\* The most items in a PrizePicks payload.
MaxItems == 2

\* A list of items, bare or under "data", and a scalar.
PrizePicksPayloads ==
    {ListPayload(is) : is \in SeqsUpTo(Items, MaxItems)}
      \cup {WrapperPayload(is) : is \in SeqsUpTo(Items, MaxItems)}
      \cup {ScalarPayload}

\* Odds API payloads where one name recurs: under two thresholds of a
\* market, in two markets of a bookmaker, and under two bookmakers.
PayloadTwoThresholds ==
    ListPayload(<<OneMarketEvent(<<Outcome(Ace, None, P_5_5, M_110, Over),
                                   Outcome(Ace, None, P_6, P_150, Over)>>)>>)
PayloadTwoMarkets ==
    ListPayload(<<Event(<<Bookmaker(None,
        <<Market(Atom("player_points"), <<Outcome(Ace, None, P_5_5, M_110, Over)>>),
          Market(Atom("h2h"), <<Outcome(Bob, None, P_5_5, M_110, Over)>>),
          Market(Atom("player_threes"), <<Outcome(Ace, None, P_5_5, P_150, Under)>>)>>)>>)>>)
PayloadTwoBookmakers ==
    ListPayload(<<Event(<<
        Bookmaker(Atom("BookA"),
           <<Market(Atom("player_points"), <<Outcome(Ace, None, P_5_5, M_110, Over)>>)>>),
        Bookmaker(Atom("BookB"),
           <<Market(Atom("player_points"), <<Outcome(Ace, None, P_5_5, P_150, Over)>>)>>)>>)>>)

NormOddsPayloads ==
    OddsPayloads \cup {PayloadTwoThresholds, PayloadTwoMarkets, PayloadTwoBookmakers,
                       PayloadAceBob, PayloadACEJames, PayloadBobBroken}

NormInit ==
    /\ players \in {<<>>, <<Player(<<"A">>, James, LAL, <<Ace>>)>>}
    /\ matcher = FuzzyNameMatcher(players, DefaultScoreCutoff)
    /\ lastCall = [name |-> None, ret |-> None]
    /\ mints = <<>>
    /\ \/ ingestor = "OddsApiIngestor" /\ payload \in NormOddsPayloads
       \/ ingestor = "PrizePicksIngestor" /\ payload \in PrizePicksPayloads
    /\ parsed = NotParsed
    /\ OrchIdle
    /\ RankIdle
    /\ CalcIdle

\* One call of PrizePicksIngestor._parse_payload(payload, matcher).
PrizePicksParse ==
    /\ ingestor = "PrizePicksIngestor"
    /\ ~parsed.done
    /\ LET st == PrizePicks_parse_payload(payload, matcher)
       IN  /\ matcher' = st.m
           /\ parsed' = [done |-> TRUE, raised |-> st.raised,
                         lines |-> st.lines, calls |-> st.calls]
    /\ UNCHANGED <<players, lastCall, mints, payload, ingestor, orchVars, rankVars, calcVars>>

NormNext == OddsParse \/ PrizePicksParse

SpecNormalizers == NormInit /\ [][NormNext]_vars

-----------------------------------------------------------------------------
(* The normalizers' claims, under SpecNormalizers *)

\* C11: while normalizing one payload the resolver is called at most once
\* with any one raw player name, however many records carry the name.
C11_ResolverCalledOncePerName ==
    parsed.done =>
       \A i, j \in DOMAIN parsed.calls :
          i # j => parsed.calls[i] # parsed.calls[j]

\* The payload has a shape the normalizer walks: a list or an object, and for
\* the Odds API every event an object.
ShapeWalked ==
    IF ingestor = "OddsApiIngestor"
    THEN \A i \in DOMAIN OddsEvents(payload) : OddsEvents(payload)[i].isdict
    ELSE PrizeItems(payload).ok

\* An outcome with a player name, a numeric positive point and a price that
\* is a number or absent.
OutcomeWellFormed(o) ==
    /\ Truthy(Or(o.description, o.player))
    /\ float(o.point).ok /\ float(o.point).v > 0
    /\ OptionalFloat(o.price).ok

\* An item with a player name, a stat of the lookup table and a numeric
\* positive line.
ItemWellFormed(it) ==
    /\ it.isdict
    /\ Truthy(Or(it.display_name, it.name))
    /\ Truthy(Or(it.stat_type, it.stat))
    /\ DictHas(STAT_TYPE_NAME_MAP, lower(Or(it.stat_type, it.stat)))
    /\ float(it.line_score).ok /\ float(it.line_score).v > 0

\* The lines carry one of the given provider, stat type and threshold for
\* the identity the name resolves to.
Emitted(name, provider, stat_type, threshold) ==
    \E l \in DOMAIN parsed.lines :
       /\ parsed.lines[l].player_id = match_player_id(matcher, name).ret
       /\ parsed.lines[l].provider = provider
       /\ parsed.lines[l].stat_type = stat_type
       /\ parsed.lines[l].threshold = threshold

\* Every well-formed outcome of a market of a known key is emitted.
OutcomesEmitted ==
    \A e \in DOMAIN OddsEvents(payload) :
      LET bs == OddsEvents(payload)[e].bookmakers
      IN  \A b \in DOMAIN bs : \A m \in DOMAIN bs[b].markets :
            LET market == bs[b].markets[m]
            IN  \A o \in DOMAIN market.outcomes :
                  ( /\ DictHas(STAT_TYPE_KEY_MAP, market.key)
                    /\ OutcomeWellFormed(market.outcomes[o]) )
                  => Emitted(Or(market.outcomes[o].description,
                                market.outcomes[o].player),
                             Or(bs[b].title, OddsApiProviderName),
                             DictGet(STAT_TYPE_KEY_MAP, market.key),
                             float(market.outcomes[o].point).v)

\* Every well-formed item is emitted.
ItemsEmitted ==
    LET items == PrizeItems(payload).items
    IN  \A i \in DOMAIN items :
          ItemWellFormed(items[i])
          => Emitted(Or(items[i].display_name, items[i].name),
                     PrizePicksProviderName,
                     DictGet(STAT_TYPE_NAME_MAP,
                             lower(Or(items[i].stat_type, items[i].stat))),
                     float(items[i].line_score).v)

\* C12: on a payload of a shape the normalizer walks, the normalizer does
\* not raise whatever records are malformed, and every well-formed record of
\* the payload is emitted as a line.
C12_MalformedRecordsAreSkipped ==
    (parsed.done /\ ShapeWalked) =>
       /\ ~parsed.raised
       /\ IF ingestor = "OddsApiIngestor" THEN OutcomesEmitted ELSE ItemsEmitted

\* The line stems from an outcome of a market whose key the lookup table
\* maps to the line's stat type.
FromKnownMarket(line) ==
    \E e \in DOMAIN OddsEvents(payload) :
      LET bs == OddsEvents(payload)[e].bookmakers
      IN  \E b \in DOMAIN bs : \E m \in DOMAIN bs[b].markets :
            LET market == bs[b].markets[m]
            IN  /\ DictHas(STAT_TYPE_KEY_MAP, market.key)
                /\ line.stat_type = DictGet(STAT_TYPE_KEY_MAP, market.key)
                /\ \E o \in DOMAIN market.outcomes :
                      /\ float(market.outcomes[o].point).ok
                      /\ float(market.outcomes[o].point).v = line.threshold

\* The line stems from an item whose lower-cased stat label the lookup table
\* maps to the line's stat type.
FromKnownItem(line) ==
    LET items == PrizeItems(payload).items
    IN  \E i \in DOMAIN items :
          LET stat_key == lower(Or(items[i].stat_type, items[i].stat))
          IN  /\ items[i].isdict
              /\ DictHas(STAT_TYPE_NAME_MAP, stat_key)
              /\ line.stat_type = DictGet(STAT_TYPE_NAME_MAP, stat_key)
              /\ float(items[i].line_score).ok
              /\ float(items[i].line_score).v = line.threshold

\* No record of the payload has a key of the lookup table.
NoKnownKey ==
    IF ingestor = "OddsApiIngestor"
    THEN \A e \in DOMAIN OddsEvents(payload) :
           LET bs == OddsEvents(payload)[e].bookmakers
           IN  \A b \in DOMAIN bs : \A m \in DOMAIN bs[b].markets :
                 ~DictHas(STAT_TYPE_KEY_MAP, bs[b].markets[m].key)
    ELSE LET items == PrizeItems(payload).items
         IN  \A i \in DOMAIN items :
               /\ items[i].isdict
               /\ ~DictHas(STAT_TYPE_NAME_MAP,
                           lower(Or(items[i].stat_type, items[i].stat)))

\* C14: every line a normalizer emits has a threshold above zero and the
\* stat type the lookup table gives the key of the record it stems from; a
\* payload whose records all have keys outside the table gives no line and
\* no error.
C14_LinesPositiveAndMapped ==
    parsed.done =>
       /\ \A l \in DOMAIN parsed.lines :
             /\ parsed.lines[l].threshold > 0
             /\ parsed.lines[l].stat_type \in StatTypes
             /\ IF ingestor = "OddsApiIngestor"
                THEN FromKnownMarket(parsed.lines[l])
                ELSE FromKnownItem(parsed.lines[l])
       /\ (ShapeWalked /\ NoKnownKey) => parsed.lines = <<>> /\ ~parsed.raised

\* C14 witness: a bookmaker with a market of an unknown key between two
\* markets of known keys gave the two lines of the known markets.
C14_Witness ==
    /\ parsed.done
    /\ payload = PayloadTwoMarkets
    /\ Len(parsed.lines) = 2
    /\ parsed.lines[1].stat_type = Atom("Points")
    /\ parsed.lines[2].stat_type = Atom("Threes")

-----------------------------------------------------------------------------
(* The optimizer on its own: one snapshot, one projection provider *)

\* Player ids and providers of the lines (the optimizer never looks into
\* them).
lebron == Atom("lebron")
curry  == Atom("curry")
jokic  == Atom("jokic")
TestBook == Atom("TestBook")
BookB    == Atom("BookB")

\* A line as it sits in snapshot.lines.  PropLine validates its threshold at
\* construction only: a snapshot can hold a line whose threshold was set to
\* zero or below afterwards.
Line(player_id, provider, stat_type, threshold) ==
    PropLine(player_id, provider, stat_type, threshold, None, None).line

\* The lines of test_optimizer.py (25.0, 5.0 and 12.0), the first of them
\* again at another provider, a second line of jokic at 10.0, and lines with
\* a threshold of zero and below zero.
RankLines ==
    {Line(lebron, TestBook, Atom("Points"), 250),
     Line(curry, TestBook, Atom("Threes"), 50),
     Line(jokic, TestBook, Atom("Rebounds"), 120),
     Line(lebron, BookB, Atom("Points"), 250),
     Line(jokic, BookB, Atom("Rebounds"), 100),
     Line(curry, BookB, Atom("Threes"), 0),
     Line(lebron, BookB, Atom("Points"), -250)}

\* The most lines in a snapshot handed to the optimizer.
MaxLines == 3

\* The pairs (player_id, stat_type) a provider is asked about.
ProjectionKeys == {lebron, curry, jokic} \X StatTypes

\* Projection providers that, like mock_projection of test_optimizer.py,
\* answer by the player: 28.0 or nothing for lebron, 3.0 or nothing for
\* curry, and 12.2, 10.5, 9.5 or nothing for jokic.
Projections ==
    {[k \in ProjectionKeys |->
         IF k[1] = lebron THEN a ELSE IF k[1] = curry THEN b ELSE c] :
       a \in {None, Num(280)}, b \in {None, Num(30)},
       c \in {None, Num(122), Num(105), Num(95)}}

\* Everything but the optimizer's inputs, at rest.
RankRest ==
    /\ players = <<>>
    /\ matcher = FuzzyNameMatcher(players, DefaultScoreCutoff)
    /\ lastCall = [name |-> None, ret |-> None]
    /\ mints = <<>>
    /\ payload = ScalarPayload
    /\ parsed = NotParsed
    /\ ingestor = "OddsApiIngestor"
    /\ responses = <<>>
    /\ opc = "idle"
    /\ task = <<>>
    /\ work = <<>>
    /\ running = 0
    /\ results = <<>>
    /\ completed = <<>>
    /\ cancelRequested = FALSE
    /\ accessLog = <<>>

RankInit ==
    /\ RankRest
    /\ CalcIdle
    /\ snapshot \in {MarketSnapshot(ls) : ls \in SeqsUpTo(RankLines, MaxLines)}
    /\ get_projection \in Projections
    /\ ranked = NotRanked
    /\ previous = NotRanked
    /\ alert = NotAlerted

\* One call of rank_props_by_edge(snapshot, get_projection); the caller
\* makes at most two.
RankPropsByEdge ==
    /\ ~previous.done
    /\ ~alert.done
    /\ LET r == rank_props_by_edge(snapshot, get_projection)
       IN  /\ ranked' = [done |-> TRUE, raised |-> r.raised, edges |-> r.ranked,
                         edge_calls |-> r.edge_calls]
           /\ snapshot' = [snapshot EXCEPT !.lines = r.lines]
    /\ previous' = ranked
    /\ UNCHANGED <<players, matcher, lastCall, mints, parseVars, responses, opc,
                   task, work, running, results, completed, cancelRequested,
                   accessLog, get_projection, alert, calcVars>>

RankNext == RankPropsByEdge

SpecRank == RankInit /\ [][RankNext]_vars

-----------------------------------------------------------------------------
(* The optimizer's claims, under SpecRank *)

\* The entries of the lines in the order of snapshot.lines, before the sort.
InLineOrder == RankLoop(snapshot.lines, get_projection, RankState).ranked

\* The entries of a list whose edge is e, in their order.
WithEdge(list, e) == SelectSeq(list, LAMBDA x : x.edge = e)

\* The snapshot and the provider of test_optimizer.py.
TestLines ==
    <<Line(lebron, TestBook, Atom("Points"), 250),
      Line(curry, TestBook, Atom("Threes"), 50),
      Line(jokic, TestBook, Atom("Rebounds"), 120)>>
TestProjection(k) ==
    IF k[1] = lebron THEN Num(280) ELSE IF k[1] = curry THEN Num(30) ELSE Num(122)

\* C15: the list returned is sorted by edge, greatest first, and entries of
\* equal edge are in the order of their lines in snapshot.lines; on the
\* snapshot of the test it is lebron at 0.12, jokic at 1/60, curry at -0.40.
C15_RankedSortedStable ==
    (ranked.done /\ ~ranked.raised) =>
       /\ \A i, j \in DOMAIN ranked.edges :
             i < j => ~FracLT(ranked.edges[i].edge, ranked.edges[j].edge)
       /\ \A i \in DOMAIN ranked.edges :
             WithEdge(ranked.edges, ranked.edges[i].edge)
                = WithEdge(InLineOrder, ranked.edges[i].edge)
       /\ ( /\ snapshot.lines = TestLines
            /\ \A k \in ProjectionKeys : get_projection[k] = TestProjection(k) )
          => /\ [i \in 1..3 |-> ranked.edges[i].player_id] = <<lebron, jokic, curry>>
             /\ [i \in 1..3 |-> ranked.edges[i].edge]
                  = <<Frac(12, 100), Frac(1, 60), Frac(-40, 100)>>

\* C15 witness: lebron's line at two providers around curry's line, ranked
\* with the two equal edges first, in the order of their lines.
C15_Witness ==
    /\ ranked.done
    /\ snapshot.lines = <<Line(lebron, BookB, Atom("Points"), 250),
                          Line(curry, TestBook, Atom("Threes"), 50),
                          Line(lebron, TestBook, Atom("Points"), 250)>>
    /\ Len(ranked.edges) = 3
    /\ ranked.edges[1].edge = ranked.edges[2].edge
    /\ ranked.edges[1].provider = BookB
    /\ ranked.edges[2].provider = TestBook
    /\ ranked.edges[3].player_id = curry

\* C16: the side of every ranked entry is Over exactly when its edge is
\* above 0.05 (20 * num > den), Under exactly when it is below -0.05, and
\* Pass otherwise, the edges 0.05 and -0.05 themselves included.
C16_SideIsFunctionOfEdge ==
    ranked.done =>
       \A i \in DOMAIN ranked.edges :
          LET e    == ranked.edges[i].edge
              side == ranked.edges[i].recommended_side
          IN  /\ side = "Over"  <=> 20 * e.num > e.den
              /\ side = "Under" <=> 20 * e.num < -e.den
              /\ side = "Pass"  <=> (20 * e.num <= e.den /\ 20 * e.num >= -e.den)
              /\ e.den > 0

\* C16 witness: one list with an Over entry, an Under entry, and a Pass
\* entry whose edge is -0.05 exactly.
C16_Witness ==
    /\ ranked.done
    /\ \E i, j, k \in DOMAIN ranked.edges :
          /\ ranked.edges[i].recommended_side = "Over"
          /\ ranked.edges[j].recommended_side = "Under"
          /\ ranked.edges[k].recommended_side = "Pass"
          /\ ranked.edges[k].edge = [num |-> -1, den |-> 20]

\* C17: every call of compute_edge with a market line above zero returns
\* the quotient (projected - market_line) / market_line exactly, and every
\* call with a market line of zero or below raises ValueError.
C17_ComputeEdgeExactOrRejected ==
    \A i \in DOMAIN ranked.edge_calls :
       LET c == ranked.edge_calls[i]
       IN  IF c.market_line > 0
           THEN /\ c.kind = "value"
                /\ c.v.den > 0
                /\ c.v.num * c.market_line = (c.projected - c.market_line) * c.v.den
           ELSE c.kind = "ValueError"

\* C17 witness: one call of rank_props_by_edge called compute_edge with a
\* market line of zero, with one below zero and with one above zero.
C17_Witness ==
    /\ ranked.done
    /\ \E i, j, k \in DOMAIN ranked.edge_calls :
          /\ ranked.edge_calls[i].market_line = 0
          /\ ranked.edge_calls[j].market_line < 0
          /\ ranked.edge_calls[k].market_line > 0
          /\ ranked.edge_calls[k].v # Frac(0, 1)

\* The line has a projection and a threshold above zero.
Rankable(line) ==
    /\ get_projection[<<line.player_id, line.stat_type>>] # None
    /\ line.threshold > 0

\* The entry carries the identity of the line.
EntryOf(entry, line) ==
    /\ entry.player_id = line.player_id
    /\ entry.stat_type = line.stat_type
    /\ entry.provider = line.provider
    /\ entry.market_line = line.threshold

\* C18: the call raises nothing, and the list returned has, for every line
\* of the snapshot with a projection and a threshold above zero, as many
\* entries of that line's player, stat type, provider and threshold as the
\* snapshot has such lines, each with the projection of the line; it has no
\* entry for any other line and no entry besides.
C18_OneEntryPerRankableLine ==
    ranked.done =>
       /\ ~ranked.raised
       /\ Len(ranked.edges)
            = Cardinality({i \in DOMAIN snapshot.lines : Rankable(snapshot.lines[i])})
       /\ \A l \in Range(snapshot.lines) :
             Cardinality({i \in DOMAIN ranked.edges : EntryOf(ranked.edges[i], l)})
               = IF Rankable(l)
                 THEN Cardinality({i \in DOMAIN snapshot.lines : snapshot.lines[i] = l})
                 ELSE 0
       /\ \A i \in DOMAIN ranked.edges :
             \E l \in Range(snapshot.lines) :
                /\ EntryOf(ranked.edges[i], l)
                /\ Num(ranked.edges[i].projected)
                     = get_projection[<<l.player_id, l.stat_type>>]

\* C18 witness: a line with a threshold of zero, then a line without a
\* projection, then a line that is ranked: the list has that one entry.
C18_Witness ==
    /\ ranked.done
    /\ Len(snapshot.lines) = 3
    /\ snapshot.lines[1].threshold = 0
    /\ get_projection[<<snapshot.lines[1].player_id, snapshot.lines[1].stat_type>>] # None
    /\ get_projection[<<snapshot.lines[2].player_id, snapshot.lines[2].stat_type>>] = None
    /\ snapshot.lines[2].threshold > 0
    /\ Len(ranked.edges) = 1
    /\ EntryOf(ranked.edges[1], snapshot.lines[3])

-----------------------------------------------------------------------------
(* The alerting after the optimizer *)

\* Lines for the alerting: lebron at 25.0, curry at 5.0, jokic at 10.0.
AlertLines ==
    {Line(lebron, TestBook, Atom("Points"), 250),
     Line(curry, TestBook, Atom("Threes"), 50),
     Line(jokic, BookB, Atom("Rebounds"), 100)}

\* Providers with lebron at 28.0 (edge 0.12), curry at 3.0 or unknown, and
\* jokic at 12.2, 10.5 (edge 0.05) or 9.5 (edge -0.05).
AlertProjections ==
    {pr \in Projections :
       /\ pr[<<lebron, Atom("Points")>>] # None
       /\ pr[<<jokic, Atom("Points")>>] # None}

\* The thresholds a caller asks for: the default, and lebron's edge 0.12.
MinEdges == {DefaultMinEdge, Frac(12, 100)}

AlertInit ==
    /\ RankRest
    /\ CalcIdle
    /\ snapshot \in {MarketSnapshot(ls) : ls \in SeqsUpTo(AlertLines, MaxLines)}
    /\ get_projection \in AlertProjections
    /\ ranked = NotRanked
    /\ previous = NotRanked
    /\ alert = NotAlerted

\* One call of alert_high_value_props on the list rank_props_by_edge
\* returned, with or without a Telegram token and chat id and a Discord
\* webhook, and with the network answering each channel in some way.
AlertHighValueProps ==
    /\ ranked.done /\ ~ranked.raised
    /\ ~alert.done
    /\ \E min_edge \in MinEdges, telegram \in BOOLEAN, discord \in BOOLEAN,
          network \in [{"telegram", "discord"} -> DeliveryOutcomes] :
          LET r == alert_high_value_props(ranked.edges, min_edge, telegram,
                                          discord, network)
          IN  /\ alert' = [done |-> TRUE, raised |-> r.raised,
                           high_value |-> r.high_value, min_edge |-> min_edge,
                           telegram |-> telegram, discord |-> discord,
                           network |-> network, sent |-> r.sent,
                           ranked_after |-> r.ranked_edges]
              /\ ranked' = [ranked EXCEPT !.edges = r.ranked_edges]
    /\ UNCHANGED <<players, matcher, lastCall, mints, parseVars, orchVars,
                   get_projection, previous, calcVars>>

AlertNext == RankPropsByEdge \/ AlertHighValueProps

SpecAlert == AlertInit /\ [][AlertNext]_vars

-----------------------------------------------------------------------------
(* The alerting's claims, under SpecAlert *)

\* The list returned is the entries of the ranked list with |edge| above
\* min_edge, in ranked order.
ReturnsHighValue ==
    /\ \A i \in DOMAIN alert.high_value :
          LET e == alert.high_value[i].edge
          IN  Abs(e.num) * alert.min_edge.den > alert.min_edge.num * e.den
    /\ \E f \in [DOMAIN alert.high_value -> DOMAIN ranked.edges] :
          /\ \A i, j \in DOMAIN f : i < j => f[i] < f[j]
          /\ \A i \in DOMAIN f : alert.high_value[i] = ranked.edges[f[i]]
          /\ \A k \in DOMAIN ranked.edges :
                LET e == ranked.edges[k].edge
                IN  Abs(e.num) * alert.min_edge.den > alert.min_edge.num * e.den
                      => \E i \in DOMAIN f : f[i] = k

\* C20: whatever the network does with each delivery, the call raises
\* nothing, returns exactly the entries of the ranked list with |edge| above
\* min_edge (the edge min_edge itself left out) in ranked order, and leaves
\* the ranked list as it was.
C20_AlertsTolerateDeliveryFailure ==
    alert.done =>
       /\ ~alert.raised
       /\ ReturnsHighValue
       /\ alert.ranked_after = ranked.edges

-----------------------------------------------------------------------------
(* The alerted and the recommended, under SpecAlert *)

\* main: the picks handed to DatabaseManager.log_pick, one per entry of the
\* list alert_high_value_props returned, none where it raised.
PicksLogged == IF alert.done /\ ~alert.raised THEN alert.high_value ELSE <<>>

\* The entries of the ranked list that recommend a side, in ranked order.
Recommended ==
    SelectSeq(ranked.edges, LAMBDA e : e.recommended_side \in {"Over", "Under"})

-----------------------------------------------------------------------------
(* The two pure functions: implied probability and projection *)

\* American odds, in tenths: absent, -110, +150, +100, -100, -250 and 0.
OddsInputs ==
    {NoFloat, Float(-1100), Float(1500), Float(1000), Float(-1000),
     Float(-2500), Float(0)}

\* The longest history handed to get_projection.
MaxGames == 4

\* Game values, in tenths: 10 and 30.
GameValues == {100, 300}

Histories == UNION {[1..k -> GameValues] : k \in 0..MaxGames}

\* n_games: fewer than, as many as, and more than the games of a history,
\* and the two values that are no number of games, 0 and -1.
NGames == -1..(MaxGames + 1)

Methods == {"weighted_average", "simple_average", "median"}

CalcInit ==
    /\ players = <<>>
    /\ matcher = FuzzyNameMatcher(players, DefaultScoreCutoff)
    /\ lastCall = [name |-> None, ret |-> None]
    /\ mints = <<>>
    /\ payload = ScalarPayload
    /\ parsed = NotParsed
    /\ ingestor = "OddsApiIngestor"
    /\ OrchIdle
    /\ RankIdle
    /\ odds \in OddsInputs
    /\ implied = NotCalled
    /\ \E h \in Histories, n \in NGames, m \in Methods, st \in {"Points", "Blocks"} :
          history = [player_id |-> "mock_player", stat_type |-> st,
                     historical_values |-> h, n_games |-> n, method |-> m]
    /\ projection = NotCalled

CalculateImpliedProbability ==
    /\ ~implied.done
    /\ implied' = Called(calculate_implied_probability(odds))
    /\ UNCHANGED <<players, matcher, lastCall, mints, parseVars, orchVars,
                   rankVars, odds, history, projection>>

GetProjection ==
    /\ ~projection.done
    /\ projection' = Called(projection_get_projection(history.player_id,
                        history.stat_type, history.historical_values,
                        history.n_games, history.method))
    /\ UNCHANGED <<players, matcher, lastCall, mints, parseVars, orchVars,
                   rankVars, odds, implied, history>>

CalcNext == CalculateImpliedProbability \/ GetProjection

SpecCalc == CalcInit /\ [][CalcNext]_vars

-----------------------------------------------------------------------------
(* The claims of the two pure functions, under SpecCalc *)

\* C21: calculate_implied_probability returns 100/(o+100) for positive odds
\* o, |o|/(|o|+100) for negative odds o, and None, never a number, for absent
\* odds; -110 gives 110/210 and +150 gives 100/250.
C21_ImpliedProbability ==
    implied.done =>
      /\ odds.kind = "None" => implied.kind = "None"
      /\ odds.kind = "float" /\ odds.v > 0 =>
            /\ implied.kind = "value"
            /\ implied.v.num * (odds.v + 1000) = 1000 * implied.v.den
      /\ odds.kind = "float" /\ odds.v < 0 =>
            /\ implied.kind = "value"
            /\ implied.v.num * (1000 - odds.v) = (0 - odds.v) * implied.v.den
      /\ odds = Float(-1100) => implied.v = [num |-> 11, den |-> 21]
      /\ odds = Float(1500) => implied.v = [num |-> 2, den |-> 5]

\* C21: the function has been called on -110 and gave 110/210.
C21_Witness ==
    /\ implied.done
    /\ odds = Float(-1100)
    /\ implied.kind = "value"
    /\ implied.v = [num |-> 11, den |-> 21]

\* The last n values of a list, all of them where there are fewer.
LastN(values, n) ==
    IF n >= Len(values) THEN values
    ELSE SubSeq(values, Len(values) - n + 1, Len(values))

\* The sum of value_i * i over a window.
RECURSIVE PositionSum(_, _)
PositionSum(window, k) ==
    IF k = 0 THEN 0 ELSE PositionSum(window, k - 1) + window[k] * k

\* The projection of a window as the claim states it, 0.0 for no value.
ProjectionOfWindow(window, method) ==
    LET m == Len(window)
    IN  IF m = 0 THEN Frac(0, 1)
        ELSE IF method = "simple_average" THEN Frac(Sum(window), m)
        ELSE Frac(PositionSum(window, m), (m * (m + 1)) \div 2)

\* get_projection has returned a value for a number of games that is no
\* negative number.
Projected ==
    /\ projection.done
    /\ projection.kind = "value"
    /\ history.n_games >= 0

\* C22: for every n_games, get_projection computes its result from exactly
\* the last n_games values of historical_values (all of them when there are
\* fewer): their mean with simple_average, the sum of value_i * i/(m(m+1)/2)
\* with weighted_average; [10,10,10,30] with n_games = 4 gives 15 and 18.
C22_ProjectionFromLastNGames ==
    Projected =>
      projection.v = ProjectionOfWindow(
                        LastN(history.historical_values, history.n_games),
                        history.method)

\* C22, for n_games of at least 1: what remains true of the claim.
C22_FromLastNGamesWhenPositive ==
    Projected /\ history.n_games >= 1 =>
      projection.v = ProjectionOfWindow(
                        LastN(history.historical_values, history.n_games),
                        history.method)

\* C22: the worked example, reached in both methods.
C22_ExampleSimple ==
    /\ Projected
    /\ history.historical_values = <<100, 100, 100, 300>>
    /\ history.n_games = 4 /\ history.method = "simple_average"
    /\ projection.v = Frac(150, 1)
C22_ExampleWeighted ==
    /\ Projected
    /\ history.historical_values = <<100, 100, 100, 300>>
    /\ history.n_games = 4 /\ history.method = "weighted_average"
    /\ projection.v = Frac(180, 1)

\* C22: n_games = 0 and a result computed from all the games.
C22_ZeroGamesUsesAll ==
    /\ Projected
    /\ history.n_games = 0
    /\ history.historical_values = <<100, 100, 100, 300>>
    /\ history.method = "weighted_average"
    /\ projection.v = Frac(180, 1)

-----------------------------------------------------------------------------
(* The shared resolver across providers, under Spec *)

\* The providers of a set in every order.
Orders(S) ==
    {o \in [1..Cardinality(S) -> S] :
        \A i, j \in DOMAIN o : i # j => o[i] # o[j]}

\* The providers normalized one after the other in a given order, from the
\* resolver as constructed: the resolver after them and their results.
RECURSIVE NormalizedInTurn(_, _)
NormalizedInTurn(order, acc) ==
    IF order = <<>> THEN acc
    ELSE LET p == Head(order)
             st == OddsApi_parse_payload(responses[p].payload, acc.m)
             after ==
               IF ~responses[p].ok
               THEN [acc EXCEPT !.results[p] = ExceptionResult]
               ELSE [m |-> st.m,
                     results |-> [acc.results EXCEPT ![p] =
                                    IF st.raised THEN ExceptionResult
                                    ELSE LinesResult(st.lines)]]
         IN  NormalizedInTurn(Tail(order), after)

\* The lines of the snapshot of such a run; a provider that is not in the
\* order is not configured and has no result.
SnapshotLinesOf(order) ==
    LET run == NormalizedInTurn(order,
                  [m |-> FuzzyNameMatcher(players, DefaultScoreCutoff),
                   results |-> [p \in Providers |-> ExceptionResult]])
    IN  AllLines([i \in Providers |-> run.results[i]])

\* The multiset of a list of lines: how often each line occurs.
Occurrences(lines, l) == Cardinality({i \in DOMAIN lines : lines[i] = l})
SameMultiset(a, b) ==
    \A l \in Range(a) \cup Range(b) : Occurrences(a, l) = Occurrences(b, l)

ArgumentOrder == [i \in Providers |-> i]

\* C23: for a fixed roster and fixed payloads, the multiset of the lines of
\* the snapshot, playerIds included, is the same for every order in which
\* the providers complete: it is the one of the run that normalizes the
\* providers in the order of the argument.
C23_SnapshotIndependentOfCompletionOrder ==
    snapshot.returned =>
      SameMultiset(snapshot.lines, SnapshotLinesOf(ArgumentOrder))

\* C23: a snapshot is returned after provider 2 was normalized first, and
\* a line of it carries a playerId that the other order does not give.
C23_Diverges ==
    /\ snapshot.returned
    /\ Len(completed) >= 2 /\ completed[1] = 2 /\ completed[2] = 1
    /\ results[1].kind = "lines" /\ results[2].kind = "lines"
    /\ \E i \in DOMAIN snapshot.lines :
          snapshot.lines[i] \notin Range(SnapshotLinesOf(ArgumentOrder))

\* The providers whose task returned lines.
Successful == {p \in Providers : results[p].kind = "lines"}

\* C24: a provider that fails contributes nothing to the snapshot, not
\* through the shared resolver either: the lines of the snapshot, playerIds
\* included, are those of a run in which only the successful providers are
\* configured.
C24_FailedProviderLeavesNoTrace ==
    snapshot.returned =>
      \E order \in Orders(Successful) : snapshot.lines = SnapshotLinesOf(order)

\* C24: provider 1 failed in its normalizer after a call of the resolver,
\* provider 2 returned lines, and a line of the snapshot carries a playerId
\* that provider 2 alone does not get.
C24_Diverges ==
    /\ snapshot.returned
    /\ results[1].kind = "exception" /\ responses[1].ok
    /\ 1 \in Range(accessLog)
    /\ Successful = {2}
    /\ \E i \in DOMAIN snapshot.lines :
          snapshot.lines[i] \notin Range(SnapshotLinesOf(<<2>>))

\* C24, where no provider fails in its normalizer: what remains true.
C24_HoldsWithoutNormalizerFailure ==
    /\ snapshot.returned
    /\ \A p \in Providers : responses[p].ok => results[p].kind = "lines"
    => \E order \in Orders(Successful) : snapshot.lines = SnapshotLinesOf(order)

-----------------------------------------------------------------------------
(* The orchestrator's claims, under Spec *)

\* How often x occurs in a sequence.
Count(seq, x) == Cardinality({i \in DOMAIN seq : seq[i] = x})

\* The line lists of the providers whose task returned.
Succeeded == {p \in Providers : task[p] = "done"}

\* How often x occurs among the lines returned by the first n providers.
RECURSIVE ReturnedCount(_, _)
ReturnedCount(n, x) ==
    IF n = 0 THEN 0
    ELSE ReturnedCount(n - 1, x)
           + (IF n \in Succeeded THEN Count(results[n].lines, x) ELSE 0)

AllReturnedLines == UNION {Range(results[p].lines) : p \in Succeeded}

\* C1: whichever providers fail, the call raises nothing and returns a
\* snapshot whose lines are, as a multiset, exactly the lines returned by the
\* providers that did not fail; with every provider failed it has no lines.
C1_FailedProvidersAreDropped ==
    /\ opc # "raised"
    /\ opc = "returned" =>
         /\ snapshot.returned
         /\ \A x \in Range(snapshot.lines) \cup AllReturnedLines :
               Count(snapshot.lines, x) = ReturnedCount(NumProviders, x)
         /\ Succeeded = {} => snapshot.lines = <<>>

\* C1 witness: a returned snapshot with lines, of a run in which at least one
\* provider failed and one succeeded with lines.
C1_Witness ==
    /\ opc = "returned"
    /\ snapshot.lines # <<>>
    /\ \E p \in Providers : task[p] = "failed"
    /\ \E p \in Providers : task[p] = "done" /\ results[p].lines # <<>>

\* The lines of the providers in the given order, failed ones left out.
RECURSIVE LinesInOrder(_)
LinesInOrder(order) ==
    IF order = <<>> THEN <<>>
    ELSE (IF Head(order) \in Succeeded THEN results[Head(order)].lines ELSE <<>>)
           \o LinesInOrder(Tail(order))

\* C2 as stated: the lines of the snapshot are in the order in which the
\* providers completed.
C2_LinesInCompletionOrder ==
    opc = "returned" => snapshot.lines = LinesInOrder(completed)

\* C2 as amended: the lines of the snapshot are in the order of the
\* providers argument, whatever the order in which the providers completed.
C2_LinesInArgumentOrder ==
    opc = "returned" =>
       snapshot.lines = LinesInOrder([i \in Providers |-> i])

\* C2 witness: the second provider completed before the first, both with
\* lines, and the snapshot is not in completion order.
C2_Witness ==
    /\ opc = "returned"
    /\ Len(completed) >= 2 /\ completed[1] = 2 /\ completed[2] = 1
    /\ {1, 2} \subseteq Succeeded
    /\ results[1].lines # <<>> /\ results[2].lines # <<>>
    /\ snapshot.lines # LinesInOrder(completed)

\* C3: once the orchestrator is cancelled no snapshot is returned, neither
\* partial nor empty; every task that was not over is cancelled (none goes
\* on fetching or normalizing) and yields no lines; the call ends cancelled
\* only when every task is over.
C3_CancellationReturnsNoSnapshot ==
    /\ cancelRequested =>
         /\ ~snapshot.returned
         /\ opc \in {"gather", "cancelled"}
         /\ \A p \in Providers :
               /\ task[p] \in Terminal \cup {"cancelling"}
               /\ task[p] = "cancelled" => results[p] = CancelledResult
    /\ opc = "cancelled" =>
         cancelRequested /\ \A p \in Providers : task[p] \in Terminal
    /\ opc = "returned" => ~cancelRequested

\* C3 witness: the call ended cancelled with one fetch cancelled in flight
\* and the lines another provider had already returned discarded.
C3_Witness ==
    /\ opc = "cancelled"
    /\ \E p \in Providers : task[p] = "cancelled"
    /\ \E p \in Providers : task[p] = "done" /\ results[p].lines # <<>>

\* The calls of one provider are next to each other in the log.
Contiguous(log) ==
    \A i, j, k \in DOMAIN log : i < j /\ j < k /\ log[i] = log[k] => log[j] = log[i]

\* C4: every provider's request is in flight before any fetch completes;
\* at most one provider is inside its normalizer, it holds the event loop
\* until the normalizer is over, and the resolver calls of one provider's
\* normalization are never interleaved with those of another's.
C4_NormalizationIsAtomic ==
    /\ (\E p \in Providers : task[p] \in {"parse", "done", "failed"})
          => \A q \in Providers : task[q] # "pending"
    /\ Cardinality({p \in Providers : task[p] = "parse"}) <= 1
    /\ \A p \in Providers : task[p] = "parse" => running = p
    /\ Contiguous(accessLog)

\* C4 witness: one provider is between two events of its normalization,
\* having called the resolver, after another provider's normalization has
\* called it too, while no fetch is left: both fetches were in flight
\* together and the normalizations ran one after the other.
C4_Witness ==
    \E p, q \in Providers :
       /\ p # q
       /\ task[p] = "parse" /\ work[p].events # <<>>
       /\ task[q] = "done"
       /\ completed = <<q>>
       /\ p \in Range(accessLog) /\ q \in Range(accessLog)

=============================================================================
